---- MODULE Spec2Model ----
(***************************************************************************)
(* A model of the LinkedIn automation engine: the idempotency ledger       *)
(* (utils/stateStore.js), the GitHub signal source, the signal classifier, *)
(* the workflow engine, the content generator and the LinkedIn publisher   *)
(* with its manual-review queue.                                           *)
(*                                                                         *)
(* Confidences are kept in hundredths (0.7 is 70).  The clock `now` is     *)
(* Date.now() in milliseconds.  External capabilities (GitHub, the         *)
(* inference endpoint, the LinkedIn API, the state file's write) answer    *)
(* nondeterministically.                                                   *)
(*                                                                         *)
(* The model is of the classes, not of module loading: a class that a file *)
(* binds with require is the class which the required module defines.  The *)
(* calls of the logger change no state; they are modelled where a call can *)
(* throw that is required to return: Logger._format throws for a value     *)
(* JSON.stringify cannot serialize, and utils/stateStore.js binds its name *)
(* logger by destructuring the exported Logger instance, which has no such *)
(* property.  The engine is modelled with the state changes of the store's *)
(* calls.                                                                  *)
(***************************************************************************)
EXTENDS Integers, Sequences, FiniteSets, TLC

VARIABLES
  now,         \* Date.now()
  state,       \* StateStore.state: {processed, executions, metadata}
  disk,        \* the content of STATE_FILE
  run,         \* the executeWorkflow invocation in progress
  runs,        \* the number of executeWorkflow invocations so far
  lastRun,     \* what the latest finished invocation returned or threw
  gen,         \* ContentGenerator: hfToken, lastCallTime and the last generate() call
  pub,         \* LinkedInPublisher: config, queue, calls in flight, last call
  posts,       \* the posts the LinkedIn API has accepted, oldest first
  call,        \* the latest call of a pure stage or of the store: its argument,
               \* what it returned and whether it threw
  tasks        \* the scheduled callbacks that await their task function

vars == <<now, state, disk, run, runs, lastRun, gen, pub, posts, call, tasks>>

----------------------------------------------------------------------------
(* Bounds of the model.                                                    *)

MaxTicks == 2        \* how far the clock is followed past the start
MaxTrail == 2        \* audit-trail entries a behaviour records
MaxRuns == 2         \* executeWorkflow invocations a behaviour follows
MaxBatch == 2        \* events of one kind a fetch returns
MaxQueued == 2       \* queue items a behaviour creates
MaxPosts == 2        \* posts the LinkedIn API accepts in a behaviour
MaxCalls == 2        \* generate() calls a behaviour follows
MaxInFlight == 2     \* publishFromQueue calls awaiting the LinkedIn API at once
MaxTextRuns == 3     \* runs of equal characters in a text handed to sanitizeText
MaxTasks == 2        \* scheduled callbacks in progress at once
MaxAttempts == 3     \* generate() calls a behaviour follows when they overlap

(* Program constants.                                                      *)

MaxExecutions == 100
RateLimitDelay == 2000
MaxPostLength == 3000
MinConfidence == 50
MinClassified == 30
MaxClassified == 100
MaxTopicLength == 100
MaxContextLength == 500
FailedConfidence == 30
ImageRateLimitDelay == 1000

----------------------------------------------------------------------------
(* utils/stateStore.js: StateStore                                         *)

\* `${kind}:${key}`: the kind prefix and the natural key of the event
SignalId(kind, key) == <<kind, key>>

CommitShas == {"a1", "b2"}
ReadmeShas == {"r1"}
IssueNumbers == {7, 8}

SignalIds ==
  {SignalId("commit", s) : s \in CommitShas}
    \cup {SignalId("readme", s) : s \in ReadmeShas}
    \cup {SignalId("issue", n) : n \in IssueNumbers}

EmptyMap == [x \in {} |-> 0]

EmptyState == [processed |-> EmptyMap, executions |-> <<>>, metadata |-> EmptyMap]

\* the state file: absent, unparsable, or a document written by save()
MissingFile == [kind |-> "missing", doc |-> EmptyState]
CorruptFile == [kind |-> "corrupt", doc |-> EmptyState]
Document(s) == [kind |-> "doc", doc |-> s]

\* load(): what it returns, or would return did its logging not throw
load(file) == IF file.kind = "doc" THEN file.doc ELSE EmptyState

\* save(): what it leaves in the state file; writeFileSync may fail
save(file, s, writeOk) == IF writeOk THEN Document(s) ELSE file

\* utils/logger.js exports an instance of Logger: its own property and the
\* methods of its prototype
LoggerProperties == {"level", "_format", "error", "warn", "info", "debug"}

\* const { logger } = require('./logger') in utils/stateStore.js
logger == IF "logger" \in LoggerProperties THEN "Logger" ELSE "undefined"

\* logger.info(...), logger.debug(...), logger.error(...) in utils/stateStore.js
logThrows == logger = "undefined"

\* load(): the missing file is logged in the try block, the unparsable one in
\* the catch block, whose own throw leaves load() and the constructor
loadThrows(file) == file.kind # "doc" /\ logThrows

\* save(): the success is logged in the try block and the failure in the catch
\* block, whose own throw leaves save()
saveThrows(writeOk) == logThrows

\* the latest call of a pure stage or of the store
StageCall(op, arg, result, threw) ==
  [op |-> op, arg |-> arg, result |-> result, threw |-> threw]

\* none so far
NoStageCall == StageCall("none", <<>>, <<>>, FALSE)

\* module.exports = new StateStore(): there is a store unless load() threw
Constructed == ~(call.op = "StateStore" /\ call.threw)

\* !x for a value the model keeps as a string
Falsy(v) == v \in {"0", "", "false", "null", "undefined"}

\* !!this.state.processed[signalId]: every stored entry is an object, which is truthy
hasProcessedIn(s, signalId) == signalId \in DOMAIN s.processed

hasProcessed(signalId) == hasProcessedIn(state, signalId)

Put(map, k, v) == [x \in DOMAIN map \cup {k} |-> IF x = k THEN v ELSE map[x]]

\* {timestamp: new Date().toISOString(), ...metadata}
ProcessedEntry(t, metadata) ==
  [timestamp |-> t, type |-> metadata.type, confidence |-> metadata.confidence]

\* a bug: the oldest n are kept
Last_oldest(seq, n) ==
  IF Len(seq) <= n THEN seq ELSE SubSeq(seq, 1, n)

\* a bug: the map is replaced by the new entry alone
withProcessed_replacing(s, signalId, t, metadata) ==
  [s EXCEPT !.processed = Put(EmptyMap, signalId, ProcessedEntry(t, metadata))]

withProcessed(s, signalId, t, metadata) ==
  [s EXCEPT !.processed = Put(s.processed, signalId, ProcessedEntry(t, metadata))]

\* seq.slice(-n)
Last(seq, n) ==
  IF Len(seq) <= n THEN seq ELSE SubSeq(seq, Len(seq) - n + 1, Len(seq))

\* push, then keep the last 100
withExecution(s, workflow, status, t) ==
  LET pushed ==
        Append(s.executions, [workflow |-> workflow, status |-> status, timestamp |-> t])
  IN [s EXCEPT !.executions =
        IF Len(pushed) > MaxExecutions THEN Last(pushed, MaxExecutions) ELSE pushed]

withMetadata(s, key, value) == [s EXCEPT !.metadata = Put(s.metadata, key, value)]

\* this.state.metadata[key] || defaultValue
get(key, defaultValue) ==
  IF key \in DOMAIN state.metadata /\ ~Falsy(state.metadata[key])
  THEN state.metadata[key]
  ELSE defaultValue

Metadatas ==
  {[type |-> "commit", confidence |-> 70], [type |-> "issue", confidence |-> 60]}
MetaKeys == {"lastRun"}
MetaValues == {"x", "0"}
Workflows == {"workflow-engine"}
Statuses == {"success", "error"}

\* the entries of the audit trail this process recorded
Recorded(s) ==
  {k \in DOMAIN s.executions : s.executions[k].timestamp >= RateLimitDelay}

\* a call of the store that mutates, saves and logs: save() throws when its
\* logging does, after the mutation and the write
StoreCall(op, arg, writeOk) ==
  StageCall(op, arg, [writeOk |-> writeOk], saveThrows(writeOk))

markProcessed(signalId, metadata) ==
  /\ Constructed
  /\ \E writeOk \in BOOLEAN :
       /\ state' = withProcessed(state, signalId, now, metadata)
       /\ disk' = save(disk, state', writeOk)
       /\ call' = StoreCall("markProcessed", signalId, writeOk)
  /\ UNCHANGED <<now, run, runs, lastRun, gen, pub, posts, tasks>>

recordExecution(workflow, status) ==
  /\ Constructed
  /\ Cardinality(Recorded(state)) < MaxTrail
  /\ \E writeOk \in BOOLEAN :
       /\ state' = withExecution(state, workflow, status, now)
       /\ disk' = save(disk, state', writeOk)
       /\ call' = StoreCall("recordExecution", status, writeOk)
  /\ UNCHANGED <<now, run, runs, lastRun, gen, pub, posts, tasks>>

set(key, value) ==
  /\ Constructed
  /\ \E writeOk \in BOOLEAN :
       /\ state' = withMetadata(state, key, value)
       /\ disk' = save(disk, state', writeOk)
       /\ call' = StoreCall("set", key, writeOk)
  /\ UNCHANGED <<now, run, runs, lastRun, gen, pub, posts, tasks>>

Tick ==
  /\ now < RateLimitDelay + MaxTicks
  /\ now' = now + 1
  /\ UNCHANGED <<state, disk, run, runs, lastRun, gen, pub, posts, call, tasks>>

----------------------------------------------------------------------------
(* triggers/githubTrigger.js: GitHubTrigger (in utils/stateStore.js)        *)

\* what the GitHub API can answer: a text is kept as the set of the words in
\* it that the classifier's patterns look for
Commits ==
  {[sha |-> "a1", message |-> {"feat"}],
   [sha |-> "b2", message |-> {"fix", "config"}]}

Readmes == {[sha |-> "r1", name |-> "README.md"]}

Issues ==
  {[number |-> 7, title |-> {"crash"}, labels |-> {"bug"}, pull_request |-> FALSE],
   [number |-> 8, title |-> {}, labels |-> {}, pull_request |-> TRUE]}

\* the sequences of at most n distinct elements of S
Lists(S, n) ==
  {q \in UNION {[1..k -> S] : k \in 0..n} : \A i, j \in DOMAIN q : q[i] = q[j] => i = j}

Failed == [ok |-> FALSE, data |-> <<>>]
Fetched(data) == [ok |-> TRUE, data |-> data]

\* fetchRecentCommits, fetchReadme, fetchRecentIssues: the data, or a throw
CommitResponses == {Failed} \cup {Fetched(q) : q \in Lists(Commits, MaxBatch)}
ReadmeResponses == {Failed} \cup {Fetched(<<r>>) : r \in Readmes}
IssueResponses == {Failed} \cup {Fetched(q) : q \in Lists(Issues, MaxBatch)}

CommitSignal(commit) ==
  [type |-> "commit", id |-> SignalId("commit", commit.sha), data |-> commit,
   confidence |-> 70]

ReadmeSignal(readme) ==
  [type |-> "readme_update", id |-> SignalId("readme", readme.sha), data |-> readme,
   confidence |-> 80]

IssueSignal(issue) ==
  [type |-> "issue", id |-> SignalId("issue", issue.number), data |-> issue,
   confidence |-> 60]

newCommitSignals(s, commits) ==
  LET isNew(c) == ~hasProcessedIn(s, SignalId("commit", c.sha))
      fresh == SelectSeq(commits, isNew)
  IN [k \in DOMAIN fresh |-> CommitSignal(fresh[k])]

\* a bug: the README signal is built without asking the ledger
newReadmeSignals_unchecked(s, response) ==
  IF response.ok
  THEN [k \in DOMAIN response.data |-> ReadmeSignal(response.data[k])]
  ELSE <<>>

newReadmeSignals(s, response) ==
  LET isNew(r) == ~hasProcessedIn(s, SignalId("readme", r.sha))
      fresh == SelectSeq(response.data, isNew)
  IN IF response.ok THEN [k \in DOMAIN fresh |-> ReadmeSignal(fresh[k])] ELSE <<>>

newIssueSignals(s, response) ==
  LET isNew(i) == ~i.pull_request /\ ~hasProcessedIn(s, SignalId("issue", i.number))
      fresh == SelectSeq(response.data, isNew)
  IN IF response.ok THEN [k \in DOMAIN fresh |-> IssueSignal(fresh[k])] ELSE <<>>

\* a bug: the issue fetch's throw leaves detectSignals too
detectSignals_issuesRequired(s, commits, readme, issues) ==
  IF ~commits.ok \/ ~issues.ok
  THEN [threw |-> TRUE, signals |-> <<>>]
  ELSE [threw |-> FALSE,
        signals |-> newCommitSignals(s, commits.data)
                      \o newReadmeSignals(s, readme)
                      \o newIssueSignals(s, issues)]

\* detectSignals(repo) against the ledger s: the signals, or the commit fetch's throw
detectSignals(s, commits, readme, issues) ==
  IF ~commits.ok
  THEN [threw |-> TRUE, signals |-> <<>>]
  ELSE [threw |-> FALSE,
        signals |-> newCommitSignals(s, commits.data)
                      \o newReadmeSignals(s, readme)
                      \o newIssueSignals(s, issues)]

\* GitHubTrigger.markProcessed(signal)
triggerMarkProcessed(signal) ==
  markProcessed(signal.id, [type |-> signal.type, confidence |-> signal.confidence])

AllSignals ==
  {CommitSignal(c) : c \in Commits}
    \cup {ReadmeSignal(r) : r \in Readmes}
    \cup {IssueSignal(i) : i \in Issues}

----------------------------------------------------------------------------
(* triggers/signalClassifier.js: SignalClassifier                          *)

Min(a, b) == IF a <= b THEN a ELSE b
Max(a, b) == IF a >= b THEN a ELSE b

Matches(words, pattern) == words \cap pattern # {}

Classified(signal, category, confidence, method) ==
  [type |-> signal.type, id |-> signal.id, data |-> signal.data,
   category |-> category, confidence |-> confidence, method |-> method]

classifyCommit(signal) ==
  LET message == signal.data.message
      verdict ==
        IF Matches(message, {"feat", "feature", "add", "implement"})
          THEN [category |-> "code", adjustment |-> 10]
        ELSE IF Matches(message, {"doc", "docs", "readme", "documentation"})
          THEN [category |-> "docs", adjustment |-> 15]
        ELSE IF Matches(message, {"fix", "bug", "patch", "hotfix"})
          THEN [category |-> "code", adjustment |-> 5]
        ELSE IF Matches(message, {"config", "setup", "build", "ci", "cd"})
          THEN [category |-> "config", adjustment |-> -5]
        ELSE IF Matches(message, {"refactor", "cleanup", "style"})
          THEN [category |-> "code", adjustment |-> 0]
        ELSE [category |-> "unknown", adjustment |-> 0]
  IN Classified(signal, verdict.category,
                Max(30, Min(100, signal.confidence + verdict.adjustment)),
                "commit_message_heuristic")

classifyReadme(signal) ==
  Classified(signal, "docs", Min(100, signal.confidence + 10), "readme_direct")

classifyIssue(signal) ==
  LET title == signal.data.title
      labels == signal.data.labels
      byLabel ==
        IF Matches(labels, {"bug", "fix"})
          THEN [category |-> "code", adjustment |-> 5]
        ELSE IF Matches(labels, {"documentation", "docs"})
          THEN [category |-> "docs", adjustment |-> 10]
        ELSE IF Matches(labels, {"feature", "enhancement"})
          THEN [category |-> "code", adjustment |-> 10]
        ELSE [category |-> "unknown", adjustment |-> 0]
      verdict ==
        IF byLabel.category # "unknown" THEN byLabel
        ELSE IF Matches(title, {"bug", "error", "broken", "crash"})
          THEN [category |-> "code", adjustment |-> 0]
        ELSE IF Matches(title, {"doc", "docs", "readme", "documentation"})
          THEN [category |-> "docs", adjustment |-> 5]
        ELSE IF Matches(title, {"feature", "enhancement", "improve"})
          THEN [category |-> "code", adjustment |-> 5]
        ELSE byLabel
  IN Classified(signal, verdict.category,
                Max(30, Min(100, signal.confidence + verdict.adjustment)),
                "issue_labels_title")

classify(signal) ==
  CASE signal.type = "commit" -> classifyCommit(signal)
    [] signal.type = "readme_update" -> classifyReadme(signal)
    [] signal.type = "issue" -> classifyIssue(signal)
    [] OTHER -> Classified(signal, "unknown", signal.confidence, "unhandled_type")

\* the test of filterByConfidence(signals, minConfidence = 0.5)
passesConfidence(classified) == classified.confidence >= MinConfidence

\* prior confidences in [0, 1], in hundredths
Priors == {0, 10, 30, 60, 95, 100}

\* the signals classify can be handed: every kind, an unrecognized kind too,
\* with payloads that reach every branch of the heuristics
ClassifierInputs ==
  {[type |-> "commit", id |-> SignalId("commit", "a1"), confidence |-> c,
    data |-> [sha |-> "a1", message |-> m]] :
      c \in Priors, m \in {{"feat"}, {"docs"}, {"fix"}, {"config"}, {"refactor"}, {}}}
  \cup {[type |-> "readme_update", id |-> SignalId("readme", "r1"), confidence |-> c,
          data |-> [sha |-> "r1", name |-> "README.md"]] : c \in Priors}
  \cup {[type |-> "issue", id |-> SignalId("issue", 7), confidence |-> c,
          data |-> [number |-> 7, title |-> t, labels |-> l, pull_request |-> FALSE]] :
            c \in Priors, t \in {{"crash"}, {"docs"}, {"feature"}, {}},
            l \in {{"bug"}, {"documentation"}, {"enhancement"}, {}}}
  \cup {[type |-> "release", id |-> SignalId("release", "v1"), confidence |-> c,
          data |-> [tag |-> "v1"]] : c \in Priors}

\* a call of classify(signal)
classify_call(signal) ==
  /\ call' = StageCall("classify", signal, classify(signal), FALSE)
  /\ UNCHANGED <<now, state, disk, run, runs, lastRun, gen, pub, posts, tasks>>

----------------------------------------------------------------------------
(* workflows/workflowEngine.js: WorkflowEngine                             *)

\* obj[name] in JavaScript: undefined when the object has no such property
Prop(obj, name) == IF name \in DOMAIN obj THEN obj[name] ELSE "undefined"

\* the methods class DataFetcher defines
DataFetcherMethods ==
  {"extractKeywords", "fetchWikipediaSummary", "fetchContextFromKeywords",
   "enrichSignal", "enrichSignals"}

\* new WorkflowEngine(): no invocation in progress
IdleRun ==
  [pc |-> "idle", signals |-> <<>>, results |-> <<>>,
   fetched |-> [commits |-> <<>>, readme |-> <<>>, issues |-> <<>>]]

Returned(signal, status) == [threw |-> FALSE, signal |-> signal, status |-> status]
Thrown(signal) == [threw |-> TRUE, signal |-> signal, status |-> "none"]

\* _processSingleSignal(signal): the result it returns, or its throw.  The stages
\* after the call of dataFetcher.fetch are not reached: DataFetcher has no fetch.
processSingleSignal(signal) ==
  LET classified == classify(signal)
  IN IF Falsy(Prop(classified, "shouldProcess"))
       THEN Returned(signal, "filtered")
     ELSE IF "fetch" \notin DataFetcherMethods
       THEN Thrown(signal)
     ELSE Returned(signal, "queued")

\* the body of the loop over the signals: the result, or the catch's error entry
resultEntry(signal) ==
  LET r == processSingleSignal(signal)
  IN IF r.threw THEN [signal |-> signal, status |-> "error"]
     ELSE [signal |-> r.signal, status |-> r.status]

Finished(outcome, r) == [outcome |-> outcome, signals |-> r.signals, results |-> r.results]

\* no invocation has finished yet
NoRun == Finished("none", IdleRun)

\* what executeWorkflow() got from detectSignals(), and what it raises when
\* detection threw: in the catch block `throw error` comes after
\* stateStore.recordExecution, whose own throw is what the caller gets instead
Detection(commits, readme, issues, detected, writeOk) ==
  StageCall("executeWorkflow",
            [commits |-> commits, readme |-> readme, issues |-> issues],
            [signals |-> detected.signals,
             raised |-> IF ~detected.threw THEN "nothing"
                        ELSE IF saveThrows(writeOk) THEN "TypeError"
                        ELSE "detection error"],
            detected.threw)

\* executeWorkflow(), up to the end of detection
executeWorkflow_detect(commits, readme, issues, writeOk) ==
  /\ run.pc = "idle"
  /\ runs < MaxRuns
  /\ runs' = runs + 1
  /\ LET detected == detectSignals(state, commits, readme, issues)
     IN /\ IF detected.threw
             THEN /\ state' = withExecution(state, "workflow-engine", "error", now)
                  /\ disk' = save(disk, state', writeOk)
                  /\ lastRun' = Finished("threw", IdleRun)
                  /\ run' = run
           ELSE IF detected.signals = <<>>
             THEN /\ lastRun' = Finished("no_signals", IdleRun)
                  /\ UNCHANGED <<state, disk, run>>
           ELSE /\ run' = [pc |-> "processing", signals |-> detected.signals,
                           results |-> <<>>,
                           fetched |-> [commits |-> commits.data,
                                        readme |-> readme.data,
                                        issues |-> issues.data]]
                /\ UNCHANGED <<state, disk, lastRun>>
        /\ call' = Detection(commits, readme, issues, detected, writeOk)
  /\ UNCHANGED <<now, gen, pub, posts, tasks>>

\* one turn of the loop: for (const signal of signals)
executeWorkflow_signal ==
  /\ run.pc = "processing"
  /\ Len(run.results) < Len(run.signals)
  /\ run' = [run EXCEPT !.results =
               Append(@, resultEntry(run.signals[Len(run.results) + 1]))]
  /\ UNCHANGED <<now, state, disk, runs, lastRun, gen, pub, posts, call, tasks>>

\* after the loop: record the execution and return the results
executeWorkflow_return(writeOk) ==
  /\ run.pc = "processing"
  /\ Len(run.results) = Len(run.signals)
  /\ state' = withExecution(state, "workflow-engine", "success", now)
  /\ disk' = save(disk, state', writeOk)
  /\ lastRun' = Finished("success", run)
  /\ run' = IdleRun
  /\ UNCHANGED <<now, runs, gen, pub, posts, call, tasks>>

----------------------------------------------------------------------------
(* services/dataNormalizer.js: DataNormalizer                              *)

\* the value of a text property: undefined (or missing), a string, or a value
\* of another type.  Of a string the model keeps what it says (label) and its
\* characters, as the sequence of its runs: a run is a character and the
\* number of times it is repeated, and adjacent runs differ in the character
Run(char, count) == <<char, count>>

Text(kind, label, chars) == [kind |-> kind, label |-> label, chars |-> chars]

NoText == Text("undefined", "", <<>>)

\* a string of the given length without whitespace
String(label, length) ==
  Text("string", label, IF length = 0 THEN <<>> ELSE <<Run("a", length)>>)

NotAString == Text("number", "", <<>>)
NotSerializable == Text("bigint", "", <<>>)

\* the characters that \s matches
Whitespace == {" ", "\t"}

RECURSIVE LengthOf(_)
\* string.length
LengthOf(chars) ==
  IF chars = <<>> THEN 0 ELSE chars[1][2] + LengthOf(Tail(chars))

RECURSIVE Merged(_)
\* the sequence of chars of the same string in which adjacent chars differ
Merged(chars) ==
  IF Len(chars) < 2 THEN chars
  ELSE IF chars[1][1] = chars[2][1]
    THEN Merged(<<Run(chars[1][1], chars[1][2] + chars[2][2])>> \o Tail(Tail(chars)))
  ELSE <<chars[1]>> \o Merged(Tail(chars))

\* string.replace(/\s+/g, ' ')
collapse(chars) ==
  LET toSpace(k) == IF chars[k][1] \in Whitespace THEN Run(" ", 1) ELSE chars[k]
      spaced == [k \in DOMAIN chars |-> toSpace(k)]
      keep(k) == k = 1 \/ ~(chars[k][1] \in Whitespace /\ chars[k - 1][1] \in Whitespace)
      kept == {k \in DOMAIN chars : keep(k)}
      nth(n) == CHOOSE k \in kept : Cardinality({m \in kept : m < k}) = n - 1
  IN [n \in 1..Cardinality(kept) |-> spaced[nth(n)]]

RECURSIVE trimStart(_)
trimStart(chars) ==
  IF chars # <<>> /\ chars[1][1] \in Whitespace THEN trimStart(Tail(chars)) ELSE chars

RECURSIVE trimEnd(_)
trimEnd(chars) ==
  IF chars # <<>> /\ chars[Len(chars)][1] \in Whitespace
  THEN trimEnd(SubSeq(chars, 1, Len(chars) - 1))
  ELSE chars

\* a bug: the ends are left as they are
trim_not(chars) == chars

\* string.trim()
trim(chars) == trimEnd(trimStart(chars))

RECURSIVE substring(_, _)
\* string.substring(0, end)
substring(chars, end) ==
  IF end <= 0 \/ chars = <<>> THEN <<>>
  ELSE IF chars[1][2] >= end THEN <<Run(chars[1][1], end)>>
  ELSE <<chars[1]>> \o substring(Tail(chars), end - chars[1][2])

\* a + b
concat(a, b) == Merged(a \o b)

\* Logger._format(level, message, meta) is JSON.stringify, which throws for a
\* value it cannot serialize
formatThrows(values) == \E value \in values : value.kind = "bigint"

\* sanitizeText(text, maxLength) throws when text is truthy and has no replace
sanitizeTextThrows(text) == text.kind \notin {"undefined", "string"}

\* a bug: the text is cut at maxLength and no marker is added
sanitizeText_unmarked(text, maxLength) ==
  LET cleaned == trim(collapse(text.chars))
  IN IF text.kind = "undefined" \/ cleaned = <<>> THEN String("", 0)
     ELSE IF LengthOf(cleaned) > maxLength
       THEN [text EXCEPT !.chars = substring(cleaned, maxLength)]
     ELSE [text EXCEPT !.chars = cleaned]

\* sanitizeText(text, maxLength), for an undefined or a string text
sanitizeText(text, maxLength) ==
  LET cleaned == trim(collapse(text.chars))
  IN IF text.kind = "undefined" \/ cleaned = <<>> THEN String("", 0)
     ELSE IF LengthOf(cleaned) > maxLength
       THEN [text EXCEPT !.chars = concat(substring(cleaned, maxLength - 3),
                                         <<Run(".", 3)>>)]
     ELSE [text EXCEPT !.chars = cleaned]

\* the value of a confidence property: undefined, or a number in thousandths,
\* or a value of another type
Confidence(kind, thousandths) == [kind |-> kind, thousandths |-> thousandths]

\* parseFloat(x.toFixed(2)), from thousandths to hundredths
toFixed2(thousandths) ==
  IF thousandths >= 0 THEN (thousandths + 5) \div 10
  ELSE 0 - ((5 - thousandths) \div 10)

UnknownId == SignalId("unknown", "unknown")
ErrorId == SignalId("error", "error")

\* enrichedSignal.originalSignal: undefined, or {id, type, data}
NoOriginal == [defined |-> FALSE, id |-> UnknownId, data |-> FALSE]
Original(id, data) == [defined |-> TRUE, id |-> id, data |-> data]

\* what normalize() can be handed: null, or a record, of which any property
\* can be missing or of the wrong type
NullEnriched ==
  [isNull |-> TRUE, topic |-> NoText, context |-> NoText,
   confidence |-> Confidence("undefined", 0), sources |-> [isArray |-> FALSE, items |-> <<>>],
   signalType |-> "undefined", category |-> "undefined", originalSignal |-> NoOriginal]

\* the properties of an enriched record beside its texts and its confidence:
\* all there, none there, or an origin without data
EnrichedRest ==
  {[sources |-> [isArray |-> TRUE, items |-> <<"wikipedia:webhooks">>],
    signalType |-> "commit", category |-> "code",
    originalSignal |-> Original(SignalId("commit", "a1"), TRUE)],
   [sources |-> [isArray |-> FALSE, items |-> <<>>],
    signalType |-> "undefined", category |-> "undefined",
    originalSignal |-> NoOriginal],
   [sources |-> [isArray |-> TRUE, items |-> <<>>],
    signalType |-> "issue", category |-> "undefined",
    originalSignal |-> Original(SignalId("issue", 7), FALSE)]}

Enriched(topic, context, confidence, rest) ==
  [isNull |-> FALSE, topic |-> topic, context |-> context, confidence |-> confidence,
   sources |-> rest.sources, signalType |-> rest.signalType,
   category |-> rest.category, originalSignal |-> rest.originalSignal]

EnrichedRecords ==
  {NullEnriched} \cup
  {Enriched(topic, context, confidence, rest) :
     topic \in {NoText, String("webhooks", 8),
                String("a long title", MaxTopicLength + 20), NotAString,
                NotSerializable},
     context \in {NoText, String("a long extract", MaxContextLength + 100),
                  NotAString},
     confidence \in {Confidence("undefined", 0), Confidence("bigint", 0)}
                      \cup {Confidence("number", n) : n \in {-200, 304, 996, 1500}},
     rest \in EnrichedRest}

\* something in the try block of normalize() throws
normalizationFails(enrichedSignal) ==
  \/ sanitizeTextThrows(enrichedSignal.topic)
  \/ sanitizeTextThrows(enrichedSignal.context)
  \/ enrichedSignal.confidence.kind # "number"

\* the record the try block of normalize() builds
normalized(enrichedSignal, t) ==
  LET record ==
        [topic |-> sanitizeText(enrichedSignal.topic, MaxTopicLength),
         category |-> IF Falsy(enrichedSignal.category) THEN "unknown"
                      ELSE enrichedSignal.category,
         signalType |-> enrichedSignal.signalType,
         context |-> sanitizeText(enrichedSignal.context, MaxContextLength),
         confidence |-> toFixed2(enrichedSignal.confidence.thousandths),
         sources |-> IF enrichedSignal.sources.isArray
                     THEN enrichedSignal.sources.items ELSE <<>>,
         timestamp |-> t,
         signalId |-> IF enrichedSignal.originalSignal.defined
                      THEN enrichedSignal.originalSignal.id ELSE UnknownId]
  IN IF enrichedSignal.originalSignal.defined /\ enrichedSignal.originalSignal.data
     THEN [field \in DOMAIN record \cup {"sourceData"} |->
             IF field = "sourceData" THEN "object" ELSE record[field]]
     ELSE record

\* the record the catch block of normalize() returns
failedNormalization(enrichedSignal, t) ==
  [topic |-> String("Normalization Failed", 20),
   category |-> "unknown",
   signalType |-> IF Falsy(enrichedSignal.signalType) THEN "unknown"
                  ELSE enrichedSignal.signalType,
   context |-> String("Failed to normalize enriched data", 33),
   confidence |-> FailedConfidence,
   sources |-> <<>>,
   timestamp |-> t,
   signalId |-> ErrorId]

\* normalize(enrichedSignal): logger.info reads and formats enrichedSignal.topic
\* before the try block; a throw inside the try block is caught, and the catch
\* block formats the whole of enrichedSignal before it returns the placeholder
normalize(enrichedSignal, t) ==
  IF enrichedSignal.isNull \/ formatThrows({enrichedSignal.topic})
    THEN [threw |-> TRUE, record |-> <<>>]
  ELSE IF normalizationFails(enrichedSignal)
    THEN IF formatThrows({enrichedSignal.topic, enrichedSignal.context,
                          enrichedSignal.confidence})
           THEN [threw |-> TRUE, record |-> <<>>]
         ELSE [threw |-> FALSE, record |-> failedNormalization(enrichedSignal, t)]
  ELSE [threw |-> FALSE, record |-> normalized(enrichedSignal, t)]

RequiredFields ==
  {"topic", "category", "signalType", "context", "confidence", "sources",
   "timestamp", "signalId"}

\* validate(normalizedData): the confidence test
validConfidence(normalizedData) ==
  ~(normalizedData.confidence < 0 \/ normalizedData.confidence > 100)

\* validate(normalizedData); sources is an array in every record of the model
validate(normalizedData) ==
  /\ \A field \in RequiredFields : field \in DOMAIN normalizedData
  /\ validConfidence(normalizedData)

\* a call of normalize(enrichedSignal)
normalize_call(enrichedSignal) ==
  /\ LET r == normalize(enrichedSignal, now)
     IN call' = StageCall("normalize", enrichedSignal, r.record, r.threw)
  /\ UNCHANGED <<now, state, disk, run, runs, lastRun, gen, pub, posts, tasks>>

----------------------------------------------------------------------------
(* services/dataFetcher.js: DataFetcher.  The file binds its name logger   *)
(* as utils/stateStore.js does, by destructuring the exported instance.    *)

\* the words of the texts, lower-cased and without punctuation, and their lengths
WordLength ==
  [w \in {"the", "add", "update", "api", "webhooks", "kafka", "oauth", "redis"} |->
     IF w \in {"the", "add", "api"} THEN 3
     ELSE IF w = "update" THEN 6
     ELSE IF w = "webhooks" THEN 8 ELSE 5]

\* the stop words of extractKeywords that the texts of the model hold
StopWords == {"the", "add", "update"}

Keywords == {"webhooks", "kafka", "oauth", "redis"}

\* what the lookup of a topic can meet: a page with an extract, a page
\* without, no page, or a request that times out
LookupAnswers == {"extract", "no_extract", "status_404", "timeout"}

\* [...new Set(words)]: the first occurrence of every word, in order
RECURSIVE unique(_)
unique(words) ==
  IF words = <<>> THEN <<>>
  ELSE LET before == unique(SubSeq(words, 1, Len(words) - 1))
           last == words[Len(words)]
       IN IF \E k \in DOMAIN before : before[k] = last THEN before
          ELSE Append(before, last)

\* extractKeywords(signal), for a signal whose text is a string
extractKeywords(signal) ==
  LET text == IF signal.type \in {"commit", "readme_update", "issue"}
              THEN signal.text ELSE <<>>
      significant(w) == WordLength[w] > 3 /\ w \notin StopWords
      words == unique(SelectSeq(text, significant))
  IN SubSeq(words, 1, Min(3, Len(words)))

\* signal.data is undefined, or the text is: reading it, or lower-casing it, throws
extractionThrows(signal) ==
  signal.type \in {"commit", "readme_update", "issue"} /\ ~signal.textIsString

\* fetchWikipediaSummary(topic): logger.info is the first call of the try
\* block, and the catch block's logger.error throws out of the method
fetchWikipediaSummary(topic, answer) ==
  IF logThrows THEN [threw |-> TRUE, requested |-> FALSE, found |-> FALSE]
  ELSE [threw |-> FALSE, requested |-> TRUE, found |-> answer = "extract"]

\* the loop of fetchContextFromKeywords: the topics looked up, and the
\* contexts pushed
RECURSIVE lookups(_, _)
lookups(keywords, answers) ==
  IF keywords = <<>> THEN [requested |-> <<>>, contexts |-> <<>>]
  ELSE LET topic == Head(keywords)
       IN IF fetchWikipediaSummary(topic, answers[topic]).found
            THEN [requested |-> <<topic>>, contexts |-> <<topic>>]
          ELSE LET rest == lookups(Tail(keywords), answers)
               IN [requested |-> <<topic>> \o rest.requested,
                   contexts |-> rest.contexts]

\* what enrichSignal comes to: the record it returns or the throw, and the
\* topics it had looked up
Enrichment(threw, requested, enriched) ==
  [threw |-> threw, requested |-> requested, enriched |-> enriched]

\* the records of enrichSignal's paths that end without context
withoutContext(signal, topic, context, confidence) ==
  Enriched(topic, context, Confidence("number", confidence),
           [sources |-> [isArray |-> TRUE, items |-> <<>>],
            signalType |-> signal.type,
            category |-> signal.category,
            originalSignal |-> NoOriginal])

\* enrichSignal(signal): logger.info is its first statement, outside the try block
enrichSignal(signal, answers) ==
  IF logThrows THEN Enrichment(TRUE, <<>>, NullEnriched)
  ELSE IF extractionThrows(signal)
    THEN Enrichment(FALSE, <<>>,
           [withoutContext(signal, String("Unknown", 7),
                           String("Context enrichment failed", 25),
                           Max(300, signal.confidence - 200))
              EXCEPT !.category = IF Falsy(signal.category) THEN "unknown"
                                  ELSE signal.category])
  ELSE LET keywords == extractKeywords(signal)
           found == lookups(keywords, answers)
       IN IF keywords = <<>>
            THEN Enrichment(FALSE, <<>>,
                   withoutContext(signal, String("Unknown", 7),
                                  String("No contextual information available", 35),
                                  signal.confidence))
          ELSE IF found.contexts = <<>>
            THEN Enrichment(FALSE, found.requested,
                   withoutContext(signal, String(keywords[1], WordLength[keywords[1]]),
                                  String("Technical topic", 17),
                                  signal.confidence))
          ELSE Enrichment(FALSE, found.requested,
                 Enriched(String(found.contexts[1], WordLength[found.contexts[1]]),
                          String("the extract", MaxContextLength),
                          Confidence("number", signal.confidence),
                          [sources |-> [isArray |-> TRUE, items |-> found.contexts],
                           signalType |-> signal.type,
                           category |-> signal.category,
                           originalSignal |-> Original(signal.id, TRUE)]))

\* a call of enrichSignal(signal), with what the lookups would meet
enrichSignal_call ==
  /\ call.op = "signal"
  /\ LET r == enrichSignal(call.arg.signal, call.arg.answers)
     IN call' = StageCall("enrichSignal", call.arg,
                          [requested |-> r.requested, enriched |-> r.enriched], r.threw)
  /\ UNCHANGED <<now, state, disk, run, runs, lastRun, gen, pub, posts, tasks>>

----------------------------------------------------------------------------
(* services/promptBuilder.js and services/contentGenerator.js              *)

\* Normalized Records, as DataNormalizer.normalize returns them
NormalizedRecords ==
  {[topic |-> "webhooks", context |-> "Technical topic: webhooks", category |-> "code",
    signalType |-> "commit", confidence |-> 80, sources |-> <<>>,
    timestamp |-> RateLimitDelay, signalId |-> SignalId("commit", "a1")],
   [topic |-> "Unknown", context |-> "No contextual information available",
    category |-> "docs", signalType |-> "readme_update", confidence |-> 90,
    sources |-> <<>>, timestamp |-> RateLimitDelay,
    signalId |-> SignalId("readme", "r1")]}

\* PromptBuilder.buildPrompt(normalizedData)
buildPrompt(normalizedData) ==
  [metadata |-> [signalId |-> normalizedData.signalId,
                 category |-> normalizedData.category,
                 confidence |-> normalizedData.confidence],
   system |-> [role |-> "content creator", guidelines |-> "array"],
   instructions |-> [topic |-> normalizedData.topic,
                     context |-> "string",
                     signalType |-> normalizedData.signalType,
                     category |-> normalizedData.category],
   constraints |-> [length |-> "200-300 words", hashtags |-> 3],
   attribution |-> "null"]

\* a prompt of the shape the methods of ContentGenerator read
GeneratorPrompt(metadata, context) ==
  [metadata |-> metadata,
   system |-> "You are a LinkedIn content creator",
   instructions |-> [task |-> "write a post", context |-> "array",
                     guidelines |-> "array"],
   context |-> context,
   constraints |-> [length |-> "200-300 words", hashtags |-> 3]]

Prompts ==
  {buildPrompt(n) : n \in NormalizedRecords}
    \cup {GeneratorPrompt(m, c) :
            m \in {[topic |-> "webhooks"], [signalId |-> SignalId("commit", "a1")]},
            c \in {[summary |-> "string"], [summary |-> "number"], [source |-> "none"]}}

\* required.every(field => prompt[field])
validatePrompt(prompt) ==
  \A field \in {"metadata", "system", "instructions", "context", "constraints"} :
    field \in DOMAIN prompt

\* _enforceRateLimit(): the time at which the call goes on
afterRateLimit(lastCallTime, t) ==
  IF t - lastCallTime < RateLimitDelay THEN lastCallTime + RateLimitDelay ELSE t

\* what the inference endpoint can answer to axios.post: a generated text (an
\* ordinary one, one that is an instruction tag and nothing else, one with the
\* fragments of a tag round a tag, one that quotes the placeholder markup, one
\* of 5000 characters), no text, or a failure
Capability ==
  {"text", "tags_only", "nested_tags", "placeholder_text", "long_text", "no_text",
   "status_503", "status_429", "timeout", "network_error"}

CapabilityFailures == {"status_503", "status_429", "timeout", "network_error"}

Null == [text |-> "null", provider |-> "none", warning |-> FALSE]

\* a text as its first characters and the number of ordinary characters that
\* follow them
Generated(chars, more) == [chars |-> chars, more |-> more]

InstructionTags ==
  {<<"[", "I", "N", "S", "T", "]">>, <<"[", "/", "I", "N", "S", "T", "]">>,
   <<"<", "s", ">">>, <<"<", "/", "s", ">">>}

PlaceholderMarkup == <<"[", "P", "L", "A", "C", "E", "H", "O", "L", "D", "E", "R">>

\* response.data[0].generated_text
generatedText(capability) ==
  IF capability = "text" THEN Generated(<<"x", "\n", "\n", "\n", "x">>, 400)
  ELSE IF capability = "tags_only" THEN Generated(<<"<", "s", ">">>, 0)
  ELSE IF capability = "nested_tags"
    THEN Generated(<<"<", "<", "s", ">", "s", ">", "x">>, 400)
  ELSE IF capability = "placeholder_text"
    THEN Generated(PlaceholderMarkup \o <<"]", "x">>, 400)
  ELSE IF capability = "long_text" THEN Generated(<<" ", "x">>, 5000)
  ELSE Generated(<<>>, 0)

\* chars starts with prefix
startsWith(chars, prefix) ==
  Len(chars) >= Len(prefix) /\ SubSeq(chars, 1, Len(prefix)) = prefix

\* text.includes(part)
includes(chars, part) ==
  \E k \in 0..Len(chars) : startsWith(SubSeq(chars, k + 1, Len(chars)), part)

RECURSIVE removeTags(_)
\* .replace(/\[INST\]|\[\/INST\]|<s>|<\/s>/g, ''): one pass from the left
removeTags(chars) ==
  IF chars = <<>> THEN <<>>
  ELSE IF \E tag \in InstructionTags : startsWith(chars, tag)
    THEN LET tag == CHOOSE t \in InstructionTags : startsWith(chars, t)
         IN removeTags(SubSeq(chars, Len(tag) + 1, Len(chars)))
  ELSE <<chars[1]>> \o removeTags(Tail(chars))

RECURSIVE limitNewlines(_)
\* .replace(/\n{3,}/g, '\n\n')
limitNewlines(chars) ==
  IF Len(chars) < 3 THEN chars
  ELSE IF chars[1] = "\n" /\ chars[2] = "\n" /\ chars[3] = "\n"
    THEN limitNewlines(Tail(chars))
  ELSE <<chars[1]>> \o limitNewlines(Tail(chars))

RECURSIVE trimmedStart(_)
\* .trim() at the start of a text that ends with an ordinary character
trimmedStart(chars) ==
  IF chars # <<>> /\ chars[1] \in {" ", "\n"} THEN trimmedStart(Tail(chars)) ELSE chars

\* _cleanGeneratedText(text): trim, remove the tags, limit the line breaks, cut
cleanGeneratedText(text) ==
  LET chars == limitNewlines(removeTags(trimmedStart(text.chars)))
  IN Generated(SubSeq(chars, 1, Min(Len(chars), MaxPostLength)),
               Min(text.more, Max(0, MaxPostLength - Len(chars))))

\* the result _generateWithHuggingFace builds of a generated text
huggingFaceResult(text) ==
  [text |-> IF text.chars = <<>> /\ text.more = 0 THEN "" ELSE "generated",
   provider |-> "huggingface", warning |-> FALSE,
   chars |-> text.chars, length |-> Len(text.chars) + text.more]

\* the length of the template for the topic 'webhooks' of the model's prompts:
\* 111 characters of its own, the topic twice, and the first 50 characters of
\* context.summary or 'Details about signal'
templateLength(prompt) ==
  111 + 2 * 8 + (IF Prop(prompt.context, "summary") = "string" THEN 50 ELSE 20)

\* _formatMistralPrompt(prompt) throws unless instructions.context and
\* instructions.guidelines are arrays
formatsForMistral(prompt) ==
  /\ Prop(prompt.instructions, "context") = "array"
  /\ Prop(prompt.instructions, "guidelines") = "array"

\* _generateWithHuggingFace(prompt): a result, or null
generateWithHuggingFace(hfToken, prompt, capability) ==
  IF ~hfToken THEN Null
  ELSE IF ~formatsForMistral(prompt) THEN Null
  ELSE IF generatedText(capability) # Generated(<<>>, 0)
    THEN huggingFaceResult(cleanGeneratedText(generatedText(capability)))
  ELSE Null

\* _generateFallback(prompt) throws when metadata.topic is no string or
\* context.summary is a value without substring
fallbackThrows(prompt) ==
  \/ Prop(prompt.metadata, "topic") = "undefined"
  \/ Prop(prompt.context, "summary") \notin {"undefined", "string"}

\* a bug: the template is returned as the capability's text
generateFallback_masquerading(prompt) ==
  [text |-> "template", provider |-> "huggingface", warning |-> FALSE,
   chars |-> PlaceholderMarkup \o <<":", " ", "x">>, length |-> templateLength(prompt)]

generateFallback(prompt) ==
  [text |-> "template", provider |-> "fallback", warning |-> TRUE,
   chars |-> PlaceholderMarkup \o <<":", " ", "x">>, length |-> templateLength(prompt)]

\* the object generate() returns from its catch block
ErrorResult == [text |-> "null", provider |-> "error", warning |-> FALSE]

\* _validateOutput(result): text: result.text || null
validateOutput(result) == [result EXCEPT !.text = IF Falsy(@) THEN "null" ELSE @]

\* generate(prompt): every throw inside is caught and answered with ErrorResult
generateResult(hfToken, prompt, capability) ==
  IF ~validatePrompt(prompt) THEN ErrorResult
  ELSE LET hf == generateWithHuggingFace(hfToken, prompt, capability)
       IN IF hf = Null /\ fallbackThrows(prompt) THEN ErrorResult
          ELSE LET validated == validateOutput(IF hf = Null THEN generateFallback(prompt)
                                                ELSE hf)
               IN IF validated.text = "null" THEN ErrorResult ELSE validated

generate(prompt, capability) ==
  /\ gen.calls < MaxCalls
  /\ LET goesOn == IF validatePrompt(prompt)
                     THEN afterRateLimit(gen.lastCallTime, now) ELSE now
     IN /\ now' = goesOn
        /\ gen' = [gen EXCEPT
                     !.lastCallTime = IF validatePrompt(prompt) THEN goesOn ELSE @,
                     !.calls = @ + 1,
                     !.prompt = prompt,
                     !.capability = IF gen.hfToken THEN capability ELSE "no_token",
                     !.attempted = IF validatePrompt(prompt) /\ gen.hfToken
                                     THEN Append(@, goesOn) ELSE @,
                     !.result = generateResult(gen.hfToken, prompt, capability)]
  /\ UNCHANGED <<state, disk, run, runs, lastRun, pub, posts, call, tasks>>

\* generate(prompt) from `await this._enforceRateLimit()` on, at time t: the
\* time is stored, and the request is sent if there is a credential
goesOn(g, prompt, capability, t) ==
  [g EXCEPT !.lastCallTime = t,
            !.prompt = prompt,
            !.capability = IF g.hfToken THEN capability ELSE "no_token",
            !.attempted = IF g.hfToken THEN Append(@, t) ELSE @,
            !.result = generateResult(g.hfToken, prompt, capability)]

\* generate(prompt) of a caller that does not wait for the earlier calls, up to
\* the timer of _enforceRateLimit: waitTime is computed from the lastCallTime
\* that is stored when the call arrives
generate_call(prompt, capability) ==
  /\ gen.calls < MaxAttempts
  /\ IF ~validatePrompt(prompt)
       THEN gen' = [gen EXCEPT !.calls = @ + 1, !.prompt = prompt,
                               !.capability = IF gen.hfToken THEN capability
                                              ELSE "no_token",
                               !.result = ErrorResult]
     ELSE IF afterRateLimit(gen.lastCallTime, now) = now
       THEN gen' = [goesOn(gen, prompt, capability, now) EXCEPT !.calls = @ + 1]
     ELSE gen' = [gen EXCEPT
                    !.calls = @ + 1,
                    !.waiting = Append(@, [prompt |-> prompt,
                                           until |-> afterRateLimit(gen.lastCallTime,
                                                                    now)])]
  /\ UNCHANGED <<now, state, disk, run, runs, lastRun, pub, posts, call, tasks>>

\* the timer of the waiting call that is due first fires, and the call goes on
generate_resume(capability) ==
  /\ gen.waiting # <<>>
  /\ LET first == CHOOSE k \in DOMAIN gen.waiting :
                    \A j \in DOMAIN gen.waiting :
                      \/ gen.waiting[k].until < gen.waiting[j].until
                      \/ gen.waiting[k].until = gen.waiting[j].until /\ k <= j
         due == gen.waiting[first]
         rest == SubSeq(gen.waiting, 1, first - 1)
                   \o SubSeq(gen.waiting, first + 1, Len(gen.waiting))
     IN /\ now' = IF now < due.until THEN due.until ELSE now
        /\ gen' = goesOn([gen EXCEPT !.waiting = rest], due.prompt, capability, now')
  /\ UNCHANGED <<state, disk, run, runs, lastRun, pub, posts, call, tasks>>

----------------------------------------------------------------------------
(* services/imagePromptGenerator.js: ImagePromptGenerator                  *)

\* what an image search can answer: a photo, a photo whose url is empty, no
\* photo, a body of another shape, or no answer in time
SearchAnswers == {"image", "image_without_url", "no_results", "malformed", "timeout"}

\* what generate() is handed as postMetadata: null, or an object whose topic
\* is a string or is not
PostMetadatas == {"null", "topic_string", "topic_number"}

NoImage == [found |-> FALSE, url |-> FALSE, provider |-> "none"]

\* _searchUnsplash(keywords), _searchPexels(keywords): the first photo, or null;
\* every throw inside is caught and answered with null
search(provider, answer) ==
  IF answer \in {"image", "image_without_url"}
  THEN [found |-> TRUE, url |-> answer = "image", provider |-> provider]
  ELSE NoImage

\* a bug: Pexels is searched whatever Unsplash returned, and its photo wins
fetchStockImage_both(providers, unsplash, pexels) ==
  LET first == IF providers.unsplash THEN search("unsplash", unsplash) ELSE NoImage
      second == IF providers.pexels THEN search("pexels", pexels) ELSE NoImage
  IN [requested |-> (IF providers.unsplash THEN <<"unsplash">> ELSE <<>>)
                      \o (IF providers.pexels THEN <<"pexels">> ELSE <<>>),
      image |-> IF second.found THEN second ELSE first]

\* _fetchStockImage after the keywords: the providers asked, and what is returned
fetchStockImage(providers, unsplash, pexels) ==
  LET first == IF providers.unsplash THEN search("unsplash", unsplash) ELSE NoImage
      second == IF providers.pexels THEN search("pexels", pexels) ELSE NoImage
  IN IF first.found
       THEN [requested |-> <<"unsplash">>, image |-> first]
     ELSE [requested |-> (IF providers.unsplash THEN <<"unsplash">> ELSE <<>>)
                           \o (IF providers.pexels THEN <<"pexels">> ELSE <<>>),
           image |-> second]

\* generate(context, postMetadata): postMetadata.topic throws for null, and
\* topic.replace in _extractKeywords for a topic that is no string; both are
\* caught by generate's catch block, before any search
imageResult(providers, postMetadata, unsplash, pexels) ==
  IF postMetadata # "topic_string"
  THEN [type |-> "none", provider |-> "none", requested |-> <<>>]
  ELSE LET stock == fetchStockImage(providers, unsplash, pexels)
       IN IF stock.image.found /\ stock.image.url
            THEN [type |-> "stock_image", provider |-> stock.image.provider,
                  requested |-> stock.requested]
          ELSE [type |-> "ai_prompt", provider |-> "none", requested |-> stock.requested]

\* a call of generate(context, postMetadata) on the generator the latest call
\* left; _enforceRateLimit is reached unless postMetadata is null
imageGenerate(postMetadata, unsplash, pexels) ==
  /\ call.op \in {"ImagePromptGenerator", "generate"}
  /\ call.result.calls < MaxCalls
  /\ LET goes == IF postMetadata = "null" THEN now
                 ELSE IF now - call.result.lastCallTime < ImageRateLimitDelay
                   THEN call.result.lastCallTime + ImageRateLimitDelay
                 ELSE now
         r == imageResult(call.arg.providers, postMetadata, unsplash, pexels)
     IN /\ now' = goes
        /\ call' = StageCall("generate",
                             [providers |-> call.arg.providers,
                              postMetadata |-> postMetadata,
                              unsplash |-> unsplash, pexels |-> pexels],
                             [type |-> r.type, provider |-> r.provider,
                              requested |-> r.requested,
                              lastCallTime |-> IF postMetadata = "null"
                                               THEN call.result.lastCallTime ELSE goes,
                              calls |-> call.result.calls + 1],
                             FALSE)
  /\ UNCHANGED <<state, disk, run, runs, lastRun, gen, pub, posts, tasks>>

\* new ImagePromptGenerator(): the keys from the environment, lastCallTime = 0
NewImagePromptGenerator(unsplashKey, pexelsKey) ==
  StageCall("ImagePromptGenerator",
            [providers |-> [unsplash |-> unsplashKey, pexels |-> pexelsKey],
             postMetadata |-> "null", unsplash |-> "timeout", pexels |-> "timeout"],
            [type |-> "none", provider |-> "none", requested |-> <<>>,
             lastCallTime |-> 0, calls |-> 0],
            FALSE)

----------------------------------------------------------------------------
(* The components as their constructors leave them.                        *)

\* new ContentGenerator(): hfToken from the environment, lastCallTime = 0
NewGenerator(hfToken) ==
  [hfToken |-> hfToken,
   lastCallTime |-> 0,
   calls |-> 0,
   prompt |-> buildPrompt(CHOOSE n \in NormalizedRecords : TRUE),
   capability |-> "none",
   waiting |-> <<>>,
   attempted |-> <<>>,
   result |-> Null]

----------------------------------------------------------------------------
(* services/linkedinPublisher.js: LinkedInPublisher                        *)

\* what publish() can be handed: null, or an object, of which _validateContent
\* reads whether text is a string and how long it is
NullContent == [isNull |-> TRUE, textIsString |-> FALSE, length |-> 0]
Content(textIsString, length) ==
  [isNull |-> FALSE, textIsString |-> textIsString, length |-> length]

Contents ==
  {NullContent, Content(FALSE, 0), Content(TRUE, 0), Content(TRUE, 120),
   Content(TRUE, MaxPostLength + 1)}

validateContent(content) ==
  /\ ~content.isNull
  /\ content.textIsString
  /\ content.length # 0
  /\ ~(content.length > MaxPostLength)

\* what the LinkedIn API can answer to axios.post
ApiResponses == {"created", "status_401", "status_403", "timeout"}

\* a bug: every failure is reported with the same message
apiError_undistinguished(api) == "request failed"

\* the message of the error _attemptAutoPublish throws for a failed request
apiError(api) ==
  IF api = "status_401" THEN "LinkedIn authentication failed"
  ELSE IF api = "status_403" THEN "LinkedIn API permissions insufficient"
  ELSE "request failed"

\* Math.random().toString(36).substr(2, 9)
Randoms == {"k3x", "p9q"}

\* `queue_${Date.now()}_${random}`
QueueId(t, rnd) == <<t, rnd>>

NoId == QueueId(0, "")

\* the object _queuePost builds; publishedAt and postId are undefined (0) until
\* publishFromQueue sets them
queueItem(content, t, rnd) ==
  [id |-> QueueId(t, rnd), content |-> content, status |-> "pending",
   createdAt |-> t, publishedAt |-> 0, postId |-> 0]

\* the queue item at position k of this.queue
Item(p, k) == p.heap[p.queue[k]]

\* this.queue.findIndex(item => item.id === queueId), counted from 1; 0 for -1
findIndex(p, queueId) ==
  IF \E k \in DOMAIN p.queue : Item(p, k).id = queueId
  THEN CHOOSE k \in DOMAIN p.queue :
         /\ Item(p, k).id = queueId
         /\ \A j \in 1..(k - 1) : Item(p, j).id # queueId
  ELSE 0

\* getQueue(status): the items, first queued first
getQueue(p, status) ==
  LET items == [k \in DOMAIN p.queue |-> Item(p, k)]
      Is(item) == item.status = status
  IN IF status = "all" THEN items ELSE SelectSeq(items, Is)

\* a bug: everything from the index on is removed
splice_toEnd(queue, index) == SubSeq(queue, 1, index - 1)

\* this.queue.splice(index, 1)
splice(queue, index) == SubSeq(queue, 1, index - 1) \o SubSeq(queue, index + 1, Len(queue))

\* a bug: the status is not looked at
alreadyProcessed_never(item) == FALSE

\* queueItem.status !== 'pending'
alreadyProcessed(item) == item.status # "pending"

\* a bug: the item is updated whatever the API answered
afterAttempt_always(item, api, t, postId) ==
  [item EXCEPT !.status = "published", !.publishedAt = t, !.postId = postId]

\* publishFromQueue after the await: the update is reached only if
\* _attemptAutoPublish did not throw
afterAttempt(item, api, t, postId) ==
  IF api = "created"
  THEN [item EXCEPT !.status = "published", !.publishedAt = t, !.postId = postId]
  ELSE item

\* the result of the latest call of the publisher's API.  id is the queue id
\* the call was about; queueId tells what the result's queueId property holds:
\* nothing, the id (a string), or an object
Call(op, content, id, status, threw, error) ==
  [op |-> op, content |-> content, id |-> id, status |-> status,
   threw |-> threw, error |-> error,
   queueId |-> IF op = "publish" /\ id # NoId THEN "string" ELSE "undefined"]

\* the result publish() builds in its catch block:
\* queueId: await this._queuePost(content), which is _queuePost's whole result
\* {status: 'queued', queueId, message, viewUrl}
Caught(content, id, error) ==
  [Call("publish", content, id, "error", FALSE, error) EXCEPT !.queueId = "object"]

NoCall == Call("none", NullContent, NoId, "none", FALSE, "")

\* the post the LinkedIn API creates; response.data.id is its number, and via is
\* the id of the queue item it was sent for (NoId when publish() sent it)
Post(content, via) == [id |-> Len(posts) + 1, content |-> content, via |-> via]

InFlight(p) ==
  LET RECURSIVE Sum(_)
      Sum(n) == IF n = 0 THEN 0 ELSE p.inFlight[n] + Sum(n - 1)
  IN Sum(MaxQueued)

\* _queuePost(content): the item is pushed on this.queue
queuePost(p, content, t, rnd) ==
  [p EXCEPT !.heap = Append(@, queueItem(content, t, rnd)),
            !.queue = Append(@, Len(p.heap) + 1)]

\* publish(content)
publish(content, api, rnd) ==
  /\ Len(pub.heap) < MaxQueued
  /\ Len(posts) < MaxPosts
  /\ IF content.isNull
       \* content.image throws; in the catch block _queuePost(content) throws too
       THEN /\ pub' = [pub EXCEPT !.last =
                         Call("publish", content, NoId, "none", TRUE, "TypeError")]
            /\ posts' = posts
     ELSE IF ~validateContent(content)
       THEN /\ pub' = [queuePost(pub, content, now, rnd) EXCEPT !.last =
                         Caught(content, QueueId(now, rnd),
                              "Invalid content structure")]
            /\ posts' = posts
     ELSE IF ~pub.config.autoPublish \/ ~pub.config.accessToken
       THEN /\ pub' = [queuePost(pub, content, now, rnd) EXCEPT !.last =
                         Call("publish", content, QueueId(now, rnd), "queued", FALSE, "")]
            /\ posts' = posts
     ELSE IF ~pub.config.personUrn
       THEN /\ pub' = [queuePost(pub, content, now, rnd) EXCEPT !.last =
                         Caught(content, QueueId(now, rnd),
                              "LinkedIn credentials not configured")]
            /\ posts' = posts
     ELSE IF api = "created"
       THEN /\ posts' = Append(posts, Post(content, NoId))
            /\ pub' = [pub EXCEPT !.last =
                         Call("publish", content, NoId, "published", FALSE, "")]
     ELSE /\ pub' = [queuePost(pub, content, now, rnd) EXCEPT !.last =
                       Caught(content, QueueId(now, rnd),
                            apiError(api))]
          /\ posts' = posts
  /\ UNCHANGED <<now, state, disk, run, runs, lastRun, gen, call, tasks>>

\* publishFromQueue(queueId), up to the await of the request
publishFromQueue_call(queueId) ==
  /\ LET index == findIndex(pub, queueId)
     IN IF index = 0
          THEN pub' = [pub EXCEPT !.last =
                         Call("publishFromQueue", NullContent, queueId, "none", TRUE,
                              "not found")]
        ELSE IF alreadyProcessed(Item(pub, index))
          THEN pub' = [pub EXCEPT !.last =
                         Call("publishFromQueue", NullContent, queueId, "none", TRUE,
                              "already processed")]
        ELSE IF ~pub.config.accessToken \/ ~pub.config.personUrn
          THEN pub' = [pub EXCEPT !.last =
                         Call("publishFromQueue", NullContent, queueId, "none", TRUE,
                              "LinkedIn credentials not configured")]
        ELSE /\ InFlight(pub) < MaxInFlight
             /\ pub' = [pub EXCEPT !.inFlight[pub.queue[index]] = @ + 1,
                                   !.last = Call("publishFromQueue", NullContent, queueId,
                                                 "awaiting", FALSE, "")]
  /\ UNCHANGED <<now, state, disk, run, runs, lastRun, gen, posts, call, tasks>>

\* publishFromQueue, from the answer of the request on; ref is the queueItem
\* the call found
publishFromQueue_return(ref, api) ==
  /\ pub.inFlight[ref] > 0
  /\ Len(posts) < MaxPosts
  /\ LET item == pub.heap[ref]
         post == Post(item.content, item.id)
     IN /\ posts' = IF api = "created" THEN Append(posts, post) ELSE posts
        /\ pub' = [pub EXCEPT
                     !.inFlight[ref] = @ - 1,
                     !.heap[ref] = afterAttempt(item, api, now, post.id),
                     !.last = IF api = "created"
                                THEN Call("publishFromQueue", NullContent, item.id,
                                          "published", FALSE, "")
                                ELSE Call("publishFromQueue", NullContent, item.id,
                                          "none", TRUE, apiError(api))]
  /\ UNCHANGED <<now, state, disk, run, runs, lastRun, gen, call, tasks>>

\* removeFromQueue(queueId)
removeFromQueue(queueId) ==
  /\ LET index == findIndex(pub, queueId)
     IN pub' = IF index # 0
                 THEN [pub EXCEPT !.queue = splice(@, index),
                                  !.last = Call("removeFromQueue", NullContent, queueId,
                                                "true", FALSE, "")]
                 ELSE [pub EXCEPT !.last = Call("removeFromQueue", NullContent, queueId,
                                                "false", FALSE, "")]
  /\ UNCHANGED <<now, state, disk, run, runs, lastRun, gen, posts, call, tasks>>

\* getQueue(status) reads this.queue and changes nothing
getQueue_call(status) ==
  /\ pub' = [pub EXCEPT !.last =
               Call("getQueue", NullContent, NoId,
                    IF getQueue(pub, status) = <<>> THEN "empty" ELSE "items", FALSE, "")]
  /\ UNCHANGED <<now, state, disk, run, runs, lastRun, gen, posts, call, tasks>>

\* new LinkedInPublisher(): config from the environment, this.queue = []
NewPublisher(accessToken, personUrn, autoPublish) ==
  [config |-> [accessToken |-> accessToken, personUrn |-> personUrn,
               autoPublish |-> autoPublish],
   heap |-> <<>>,
   queue |-> <<>>,
   inFlight |-> [ref \in 1..MaxQueued |-> 0],
   last |-> NoCall]

\* a state file a previous process left behind
PreviousState ==
  withProcessed(EmptyState, SignalId("commit", "a1"), 1000,
                [type |-> "commit", confidence |-> 70])

StateFiles == {MissingFile, CorruptFile, Document(PreviousState)}

\* a state file whose audit trail is one entry short of the cap
PreviousTrail ==
  [PreviousState EXCEPT !.executions =
     [k \in 1..(MaxExecutions - 1) |->
        [workflow |-> "workflow-engine", status |-> "success", timestamp |-> k]]]

LedgerFiles == StateFiles \cup {Document(PreviousTrail)}

----------------------------------------------------------------------------
(* The ledger on its own: the StateStore API under arbitrary callers.      *)

LedgerIds == {SignalId("commit", "a1"), SignalId("issue", 7)}

LedgerInit ==
  /\ now = RateLimitDelay
  /\ disk \in LedgerFiles
  /\ state = load(disk)
  /\ run = IdleRun
  /\ runs = 0
  /\ lastRun = NoRun
  /\ gen = NewGenerator(FALSE)
  /\ pub = NewPublisher(FALSE, FALSE, FALSE)
  /\ posts = <<>>
  /\ call = StageCall("StateStore", disk, <<>>, loadThrows(disk))
  /\ tasks = 0

LedgerNext ==
  \/ \E id \in LedgerIds, m \in Metadatas : markProcessed(id, m)
  \/ \E w \in Workflows, st \in Statuses : recordExecution(w, st)
  \/ \E k \in MetaKeys, v \in MetaValues : set(k, v)

LedgerSpec == LedgerInit /\ [][LedgerNext]_vars

----------------------------------------------------------------------------
(* The engine: successive executeWorkflow invocations on one ledger.  No   *)
(* code of the repository calls GitHubTrigger.markProcessed, so what the   *)
(* ledger holds is what the state file held when the process started.      *)

\* the ledger in which the signals of S are marked processed
Marked(S) ==
  [processed |-> [id \in {sig.id : sig \in S} |->
                    LET sig == CHOOSE x \in S : x.id = id
                    IN ProcessedEntry(1000, [type |-> sig.type,
                                             confidence |-> sig.confidence])],
   executions |-> <<>>,
   metadata |-> EmptyMap]

EngineStateFiles == {MissingFile} \cup {Document(Marked(S)) : S \in SUBSET AllSignals}

EngineInit ==
  /\ now = RateLimitDelay
  /\ disk \in EngineStateFiles
  /\ state = load(disk)
  /\ run = IdleRun
  /\ runs = 0
  /\ lastRun = NoRun
  /\ gen = NewGenerator(FALSE)
  /\ pub = NewPublisher(FALSE, FALSE, FALSE)
  /\ posts = <<>>
  /\ call = NoStageCall
  /\ tasks = 0

EngineNext ==
  \/ \E c \in CommitResponses, r \in ReadmeResponses, i \in IssueResponses,
        writeOk \in BOOLEAN :
       executeWorkflow_detect(c, r, i, writeOk)
  \/ executeWorkflow_signal
  \/ \E writeOk \in BOOLEAN : executeWorkflow_return(writeOk)

EngineSpec == EngineInit /\ [][EngineNext]_vars

----------------------------------------------------------------------------
(* The content generator on its own: generate() calls as time passes.      *)

GeneratorInit ==
  /\ now = RateLimitDelay
  /\ disk = MissingFile
  /\ state = load(disk)
  /\ run = IdleRun
  /\ runs = 0
  /\ lastRun = NoRun
  /\ \E hfToken \in BOOLEAN : gen = NewGenerator(hfToken)
  /\ pub = NewPublisher(FALSE, FALSE, FALSE)
  /\ posts = <<>>
  /\ call = NoStageCall
  /\ tasks = 0

GeneratorNext ==
  \/ \E prompt \in Prompts, capability \in Capability : generate(prompt, capability)
  \/ Tick

GeneratorSpec == GeneratorInit /\ [][GeneratorNext]_vars

\* generate() under callers that do not wait for each other
RateLimitNext ==
  \/ \E prompt \in Prompts, capability \in Capability : generate_call(prompt, capability)
  \/ \E capability \in Capability : generate_resume(capability)
  \/ Tick

RateLimitSpec == GeneratorInit /\ [][RateLimitNext]_vars

----------------------------------------------------------------------------
(* The publisher on its own: its API under arbitrary callers.              *)

QueueIds == {QueueId(RateLimitDelay, rnd) : rnd \in Randoms}

PublisherInit ==
  /\ now = RateLimitDelay
  /\ disk = MissingFile
  /\ state = load(disk)
  /\ run = IdleRun
  /\ runs = 0
  /\ lastRun = NoRun
  /\ gen = NewGenerator(FALSE)
  /\ \E accessToken \in BOOLEAN, personUrn \in BOOLEAN, autoPublish \in BOOLEAN :
       pub = NewPublisher(accessToken, personUrn, autoPublish)
  /\ posts = <<>>
  /\ call = NoStageCall
  /\ tasks = 0

PublisherNext ==
  \/ \E content \in Contents, api \in ApiResponses, rnd \in Randoms :
       publish(content, api, rnd)
  \/ \E queueId \in QueueIds : publishFromQueue_call(queueId)
  \/ \E ref \in 1..MaxQueued, api \in ApiResponses : publishFromQueue_return(ref, api)
  \/ \E queueId \in QueueIds : removeFromQueue(queueId)
  \/ \E status \in {"pending", "published", "all"} : getQueue_call(status)

PublisherSpec == PublisherInit /\ [][PublisherNext]_vars

----------------------------------------------------------------------------
(* The operator's view: index.js constructs a WorkflowEngine for every     *)
(* scheduled run and for --workflow, and the README has the operator       *)
(* construct one to look at the queue.  The publish stage of a run is a    *)
(* publish() call on the publisher of the run's engine.                    *)

\* new WorkflowEngine(): among others a new ContentGenerator and a new
\* LinkedInPublisher, configured from the same environment
newWorkflowEngine ==
  /\ gen' = NewGenerator(gen.hfToken)
  /\ pub' = NewPublisher(pub.config.accessToken, pub.config.personUrn,
                         pub.config.autoPublish)
  /\ UNCHANGED <<now, state, disk, run, runs, lastRun, posts, call, tasks>>

OperatorNext ==
  \/ \E content \in Contents, api \in ApiResponses, rnd \in Randoms :
       publish(content, api, rnd)
  \/ newWorkflowEngine
  \/ \E status \in {"pending", "published", "all"} : getQueue_call(status)
  \/ \E queueId \in QueueIds : publishFromQueue_call(queueId)

OperatorSpec == PublisherInit /\ [][OperatorNext]_vars

----------------------------------------------------------------------------
(* The pure stages on their own: classify and normalize on any input.      *)

StageInit ==
  /\ now = RateLimitDelay
  /\ disk = MissingFile
  /\ state = load(disk)
  /\ run = IdleRun
  /\ runs = 0
  /\ lastRun = NoRun
  /\ gen = NewGenerator(FALSE)
  /\ pub = NewPublisher(FALSE, FALSE, FALSE)
  /\ posts = <<>>
  /\ call = NoStageCall
  /\ tasks = 0

StageNext ==
  \/ \E signal \in ClassifierInputs : classify_call(signal)
  \/ \E enrichedSignal \in EnrichedRecords : normalize_call(enrichedSignal)

StageSpec == StageInit /\ [][StageNext]_vars

----------------------------------------------------------------------------
(* enrichSignal on its own: a classified signal and the lookups' answers.  *)

FetcherSignal(id, type, textIsString, text, category, confidence) ==
  [id |-> id, type |-> type, textIsString |-> textIsString, text |-> text,
   category |-> category, confidence |-> confidence]

\* classified signals; the confidence is in thousandths
FetcherSignals ==
  {FetcherSignal(shape[1], shape[2], shape[3], shape[4], shape[5], confidence) :
     shape \in {<<SignalId("commit", "a1"), "commit", TRUE,
                  <<"add", "webhooks", "the", "kafka", "webhooks", "oauth", "redis">>,
                  "code">>,
                <<SignalId("issue", 7), "issue", TRUE, <<"update", "api">>, "code">>,
                <<SignalId("readme", "r1"), "readme_update", TRUE, <<"redis">>, "docs">>,
                <<SignalId("release", "v1"), "release", TRUE, <<"kafka">>, "unknown">>,
                <<SignalId("commit", "b2"), "commit", FALSE, <<>>, "undefined">>},
     confidence \in {100, 500, 850}}

FetcherInit ==
  /\ now = RateLimitDelay
  /\ disk = MissingFile
  /\ state = load(disk)
  /\ run = IdleRun
  /\ runs = 0
  /\ lastRun = NoRun
  /\ gen = NewGenerator(FALSE)
  /\ pub = NewPublisher(FALSE, FALSE, FALSE)
  /\ posts = <<>>
  /\ \E signal \in FetcherSignals, answers \in [Keywords -> LookupAnswers] :
       call = StageCall("signal", [signal |-> signal, answers |-> answers], <<>>, FALSE)
  /\ tasks = 0

FetcherNext == enrichSignal_call

FetcherSpec == FetcherInit /\ [][FetcherNext]_vars

----------------------------------------------------------------------------
(* The image generator on its own: generate() calls as time passes.        *)

ImageInit ==
  /\ now = RateLimitDelay
  /\ disk = MissingFile
  /\ state = load(disk)
  /\ run = IdleRun
  /\ runs = 0
  /\ lastRun = NoRun
  /\ gen = NewGenerator(FALSE)
  /\ pub = NewPublisher(FALSE, FALSE, FALSE)
  /\ posts = <<>>
  /\ \E unsplashKey \in BOOLEAN, pexelsKey \in BOOLEAN :
       call = NewImagePromptGenerator(unsplashKey, pexelsKey)
  /\ tasks = 0

ImageNext ==
  \/ \E postMetadata \in PostMetadatas, unsplash \in SearchAnswers,
        pexels \in SearchAnswers :
       imageGenerate(postMetadata, unsplash, pexels)
  \/ Tick

ImageSpec == ImageInit /\ [][ImageNext]_vars

----------------------------------------------------------------------------
(* sanitizeText on its own: a text, sanitized, and sanitized again.        *)

\* the lengths of a run: short ones, and ones about and beyond the caps
RunLengths == {1, 3, 99, 101, 600}

Characters == {"a", ".", " ", "\t"}

\* the strings of at most MaxTextRuns runs, and undefined
Texts ==
  {NoText} \cup
  {Text("string", "x", chars) :
     chars \in {q \in UNION {[1..n -> Characters \X RunLengths] : n \in 0..MaxTextRuns} :
                  \A k \in DOMAIN q : k > 1 => q[k][1] # q[k - 1][1]}}

\* the field caps of the normalizer
Caps == {MaxTopicLength, MaxContextLength}

\* sanitizeText(text, maxLength)
sanitizeText_call(maxLength) ==
  /\ call.op = "text"
  /\ call' = StageCall("sanitizeText", [text |-> call.arg, maxLength |-> maxLength],
                       [once |-> sanitizeText(call.arg, maxLength)], FALSE)
  /\ UNCHANGED <<now, state, disk, run, runs, lastRun, gen, pub, posts, tasks>>

\* sanitizeText(sanitizeText(text, maxLength), maxLength)
sanitizeText_again ==
  /\ call.op = "sanitizeText"
  /\ call' = StageCall("sanitizeText again", call.arg,
                       [once |-> call.result.once,
                        twice |-> sanitizeText(call.result.once, call.arg.maxLength)],
                       FALSE)
  /\ UNCHANGED <<now, state, disk, run, runs, lastRun, gen, pub, posts, tasks>>

SanitizeInit ==
  /\ now = RateLimitDelay
  /\ disk = MissingFile
  /\ state = load(disk)
  /\ run = IdleRun
  /\ runs = 0
  /\ lastRun = NoRun
  /\ gen = NewGenerator(FALSE)
  /\ pub = NewPublisher(FALSE, FALSE, FALSE)
  /\ posts = <<>>
  /\ \E text \in Texts : call = StageCall("text", text, <<>>, FALSE)
  /\ tasks = 0

SanitizeNext ==
  \/ \E maxLength \in Caps : sanitizeText_call(maxLength)
  \/ sanitizeText_again

SanitizeSpec == SanitizeInit /\ [][SanitizeNext]_vars

----------------------------------------------------------------------------
(* scheduler/cronScheduler.js: CronScheduler, as index.js uses it.         *)

TaskName == "linkedin-automation-workflow"

\* how a call of the task function ends: it returns, it throws (or rejects
\* with) an Error, or it rejects with undefined or null
TaskOutcomes == {"returns", "throws", "rejects_undefined"}

\* what becomes of the rejection of the async callback: node-cron and the
\* process's unhandled-rejection mode decide whether the process goes on
Rejections == {"swallowed", "terminates"}

\* stateStore.recordExecution(name, status, details) as a callee: the entry is
\* pushed and saved, and the call throws when save() does
recorded(s, status, t) == withExecution(s, TaskName, status, t)

\* the process runs unless an unhandled rejection ended it
Running == ~(call.op = "task" /\ call.result.process = "terminated")

\* the outcome of a scheduled run: what the task function did, whether the
\* callback's promise rejected, and whether the process goes on
TaskRun(outcome, rejected, rejection) ==
  StageCall("task", outcome,
            [process |-> IF rejected /\ rejection = "terminates"
                         THEN "terminated" ELSE "running"],
            rejected)

\* the callback that schedule() hands to cron.schedule, at a scheduled time, up
\* to `await taskFunction()`: cron fires it whether or not an earlier callback
\* has settled
scheduledTask_start ==
  /\ Constructed
  /\ Running
  /\ tasks < MaxTasks
  /\ tasks' = tasks + 1
  /\ UNCHANGED <<now, state, disk, run, runs, lastRun, gen, pub, posts, call>>

\* the callback from the settlement of `await taskFunction()` on
scheduledTask(outcome, writeOk, rejection) ==
  /\ Constructed
  /\ Running
  /\ tasks > 0
  /\ tasks' = tasks - 1
  /\ Cardinality(Recorded(state)) < MaxTrail
  /\ IF outcome = "returns"
       THEN \* try: recordExecution(name, 'success'); its throw is caught too
            IF saveThrows(writeOk)
              THEN /\ state' = recorded(recorded(state, "success", now), "error", now)
                   /\ call' = TaskRun(outcome, saveThrows(writeOk), rejection)
            ELSE /\ state' = recorded(state, "success", now)
                 /\ call' = TaskRun(outcome, FALSE, rejection)
     ELSE IF outcome = "rejects_undefined"
       THEN \* catch (error): error.message throws before recordExecution is called
            /\ state' = state
            /\ call' = TaskRun(outcome, TRUE, rejection)
     ELSE \* catch (error): recordExecution(name, 'error')
          /\ state' = recorded(state, "error", now)
          /\ call' = TaskRun(outcome, saveThrows(writeOk), rejection)
  /\ disk' = IF state' = state THEN disk ELSE save(disk, state', writeOk)
  /\ UNCHANGED <<now, run, runs, lastRun, gen, pub, posts>>

SchedulerInit ==
  /\ now = RateLimitDelay
  /\ disk \in StateFiles
  /\ state = load(disk)
  /\ run = IdleRun
  /\ runs = 0
  /\ lastRun = NoRun
  /\ gen = NewGenerator(FALSE)
  /\ pub = NewPublisher(FALSE, FALSE, FALSE)
  /\ posts = <<>>
  /\ call = StageCall("StateStore", disk, <<>>, loadThrows(disk))
  /\ tasks = 0

SchedulerNext ==
  \/ scheduledTask_start
  \/ \E outcome \in TaskOutcomes, writeOk \in BOOLEAN, rejection \in Rejections :
       scheduledTask(outcome, writeOk, rejection)
  \/ Tick

SchedulerSpec == SchedulerInit /\ [][SchedulerNext]_vars

----------------------------------------------------------------------------
(* The trigger on its own: detectSignals(repo) for two repositories and    *)
(* GitHubTrigger.markProcessed, on one ledger.                             *)

Repositories == {"alpha", "beta"}

\* the commits upstream in a repository
CommitsOf(repo) ==
  IF repo = "alpha"
  THEN {[sha |-> "a1", message |-> {"feat"}]}
  ELSE {[sha |-> "b2", message |-> {"fix", "config"}]}

\* the issues upstream in a repository: each repository numbers its own from 1
IssuesOf(repo) ==
  IF repo = "alpha"
  THEN {[number |-> 7, title |-> {"crash"}, labels |-> {"bug"}, pull_request |-> FALSE]}
  ELSE {[number |-> 7, title |-> {"docs"}, labels |-> {}, pull_request |-> FALSE],
        [number |-> 8, title |-> {}, labels |-> {}, pull_request |-> TRUE]}

UpstreamIssues ==
  UNION {{[repo |-> repo, issue |-> i] : i \in IssuesOf(repo)} : repo \in Repositories}

TriggerSignals ==
  UNION {{CommitSignal(c) : c \in CommitsOf(repo)} \cup {IssueSignal(i) : i \in IssuesOf(repo)}
           : repo \in Repositories}
    \cup {ReadmeSignal(r) : r \in Readmes}

\* detectSignals(repo) with what the three fetches answered for that repository
detectSignals_call(repo, commits, readme, issues) ==
  /\ Constructed
  /\ LET detected == detectSignals(state, commits, readme, issues)
     IN call' = StageCall("detectSignals",
                          [repo |-> repo, commits |-> commits, readme |-> readme,
                           issues |-> issues],
                          detected.signals, detected.threw)
  /\ UNCHANGED <<now, state, disk, run, runs, lastRun, gen, pub, posts, tasks>>

TriggerInit ==
  /\ now = RateLimitDelay
  /\ disk \in StateFiles
  /\ state = load(disk)
  /\ run = IdleRun
  /\ runs = 0
  /\ lastRun = NoRun
  /\ gen = NewGenerator(FALSE)
  /\ pub = NewPublisher(FALSE, FALSE, FALSE)
  /\ posts = <<>>
  /\ call = StageCall("StateStore", disk, <<>>, loadThrows(disk))
  /\ tasks = 0

TriggerNext ==
  \/ \E repo \in Repositories :
       \E commits \in {Failed} \cup {Fetched(q) : q \in Lists(CommitsOf(repo), MaxBatch)},
          readme \in ReadmeResponses,
          issues \in {Failed} \cup {Fetched(q) : q \in Lists(IssuesOf(repo), MaxBatch)} :
         detectSignals_call(repo, commits, readme, issues)
  \/ \E signal \in TriggerSignals : triggerMarkProcessed(signal)

TriggerSpec == TriggerInit /\ [][TriggerNext]_vars

----------------------------------------------------------------------------
(* Claims about the ledger and the engine.                                 *)

A1 == SignalId("commit", "a1")
B2 == SignalId("commit", "b2")
R1 == SignalId("readme", "r1")
I7 == SignalId("issue", 7)

Eligible(signal) == ~hasProcessed(signal.id) /\ passesConfidence(classify(signal))

C2_DetectExcludesProcessed ==
  [][run.pc = "idle" /\ run'.pc = "processing"
       => \A m \in DOMAIN run'.signals : ~hasProcessed(run'.signals[m].id)]_vars

\* C2 witness: GitHub returned a processed commit, the processed README and a
\* processed issue, and detection returned the one new commit alone.
C2_Witness ==
  /\ run.pc = "processing"
  /\ run.fetched.commits = <<[sha |-> "a1", message |-> {"feat"}],
                             [sha |-> "b2", message |-> {"fix", "config"}]>>
  /\ Len(run.fetched.readme) = 1
  /\ Len(run.fetched.issues) = 2
  /\ hasProcessed(A1) /\ hasProcessed(R1) /\ hasProcessed(I7)
  /\ Len(run.signals) = 1
  /\ run.signals[1].id = B2

\* C3: after markProcessed(id, m) hasProcessed(id) is true; no later
\* markProcessed, recordExecution or set removes an entry; re-marking an id
\* keeps one entry for it, holding the new metadata.
C3_MarkedStaysProcessed ==
  [][/\ \A id \in SignalIds : hasProcessed(id) => hasProcessed(id)'
     /\ \A id \in SignalIds, m \in Metadatas :
          markProcessed(id, m)
            => /\ hasProcessed(id)'
               /\ state'.processed[id] = ProcessedEntry(now, m)
               /\ DOMAIN state'.processed = DOMAIN state.processed \cup {id}
               /\ Cardinality(DOMAIN state'.processed)
                    = Cardinality(DOMAIN state.processed)
                        + (IF hasProcessed(id) THEN 0 ELSE 1)]_vars

\* C3 witness: the entry loaded from the state file was re-marked with other
\* metadata, a second id was marked, and recordExecution and set ran.
C3_Witness ==
  /\ hasProcessed(A1) /\ state.processed[A1].type = "issue"
  /\ hasProcessed(I7)
  /\ Cardinality(DOMAIN state.processed) = 2
  /\ Len(state.executions) > 0
  /\ "lastRun" \in DOMAIN state.metadata

\* C4: a run drops a detected signal as 'filtered' only if its id is in the
\* ledger or its classified confidence is below the threshold.
C4_FilteredOnlyIfIneligible ==
  \A k \in DOMAIN run.results :
    run.results[k].status = "filtered" => ~Eligible(run.results[k].signal)

----------------------------------------------------------------------------
(* Claims about the content generator and the publisher.                   *)

\* the generative-text capability failed, or there is no credential for it
CapabilityFailed == gen.capability \in CapabilityFailures \cup {"no_token"}

\* C6: when the generative-text capability throws, times out, answers 429 or
\* 503, or has no credential, generate(prompt) returns provider fallback and
\* a non-null text.  Stated for the prompts PromptBuilder.buildPrompt builds,
\* which are the prompts generate() is documented to take.
C6_FallbackOnCapabilityFailure ==
  /\ gen.calls > 0
  /\ gen.prompt \in {buildPrompt(n) : n \in NormalizedRecords}
  /\ CapabilityFailed
  => /\ gen.result.provider = "fallback"
     /\ gen.result.text # "null"

\* C7: for every content and configuration publish(content) does not throw
\* and, unless it returns status published, leaves a pending queue item that
\* holds the content.
C7_PublishNeverThrowsNorDrops ==
  [][\A content \in Contents, api \in ApiResponses, rnd \in Randoms :
       publish(content, api, rnd)
         => /\ ~pub'.last.threw
            /\ pub'.last.status # "published"
                 => \E k \in DOMAIN pub'.queue :
                      /\ k > Len(pub.queue)
                      /\ Item(pub', k).content = content
                      /\ Item(pub', k).status = "pending"]_vars

\* C8: an item enters the queue with status pending; publishFromQueue on a
\* pending item whose request succeeds sets status published, publishedAt and
\* postId; publishFromQueue on an id whose item is no longer pending, or on an
\* id not in the queue, throws and neither sends a request nor changes the
\* queue.
C8_QueueLifecycle ==
  [][/\ \A ref \in DOMAIN pub'.heap :
          ref \notin DOMAIN pub.heap => pub'.heap[ref].status = "pending"
     /\ \A ref \in DOMAIN pub.heap :
          publishFromQueue_return(ref, "created") /\ pub.heap[ref].status = "pending"
            => /\ pub'.heap[ref].status = "published"
               /\ pub'.heap[ref].publishedAt = now
               /\ pub'.heap[ref].postId = posts'[Len(posts')].id
               /\ posts'[Len(posts')].content = pub.heap[ref].content
     /\ \A queueId \in QueueIds :
          /\ publishFromQueue_call(queueId)
          /\ \/ findIndex(pub, queueId) = 0
             \/ Item(pub, findIndex(pub, queueId)).status # "pending"
          => /\ pub'.last.threw
             /\ posts' = posts
             /\ pub'.inFlight = pub.inFlight
             /\ pub'.heap = pub.heap
             /\ pub'.queue = pub.queue]_vars

\* C8 witness: an item was published from the queue and a repeated
\* publishFromQueue on its id has been rejected.
C8_Witness ==
  /\ Len(pub.queue) > 0
  /\ Item(pub, 1).status = "published"
  /\ Item(pub, 1).postId = 1
  /\ Len(posts) = 1
  /\ pub.last.op = "publishFromQueue"
  /\ pub.last.id = Item(pub, 1).id
  /\ pub.last.threw
  /\ pub.last.error = "already processed"

\* every published queue item has a post that publishFromQueue sent for it
PublishedOnlyByApproval ==
  \A ref \in DOMAIN pub.heap :
    pub.heap[ref].status = "published"
      => \E n \in DOMAIN posts :
           /\ posts[n].via = pub.heap[ref].id
           /\ posts[n].content = pub.heap[ref].content
           /\ posts[n].id = pub.heap[ref].postId

C10_PublishedIsTerminal ==
  [][\A k \in DOMAIN pub.queue :
       Item(pub, k).status \in {"published", "rejected"}
         => \E j \in DOMAIN pub'.queue :
              pub'.queue[j] = pub.queue[k] /\ Item(pub', j).status = Item(pub, k).status]_vars

\* C10 amended: once a queue item is published its status never changes, and
\* publish, publishFromQueue and getQueue leave it in the queue; only
\* removeFromQueue called with its id takes it out.
C10_PublishedStaysUnlessRemoved ==
  [][\A k \in DOMAIN pub.queue :
       Item(pub, k).status \in {"published", "rejected"}
         => /\ pub'.heap[pub.queue[k]].status = Item(pub, k).status
            /\ \/ \E j \in DOMAIN pub'.queue : pub'.queue[j] = pub.queue[k]
               \/ removeFromQueue(Item(pub, k).id)]_vars

\* C10 witness: a published item is still in the queue behind a pending one
\* after a later removeFromQueue took another item out.
C10_Witness ==
  /\ Len(pub.queue) = 1
  /\ Len(pub.heap) = 2
  /\ Item(pub, 1).status = "published"
  /\ pub.queue[1] = 2
  /\ pub.last.op = "removeFromQueue"
  /\ pub.last.status = "true"

\* the pending items getQueue('pending') returns that have the id
PendingWithId(p, queueId) ==
  LET pending == getQueue(p, "pending")
  IN {k \in DOMAIN pending : pending[k].id = queueId}

\* C11: whenever publish(content) enqueues the content, the queueId of its
\* result is an id, and getQueue('pending') then holds exactly one item with
\* that id, and the item holds the content.
C11_QueuedResultNamesTheItem ==
  [][\A content \in Contents, api \in ApiResponses, rnd \in Randoms :
       publish(content, api, rnd) /\ Len(pub'.queue) > Len(pub.queue)
         => /\ pub'.last.queueId = "string"
            /\ pub'.last.id # NoId
            /\ Cardinality(PendingWithId(pub', pub'.last.id)) = 1
            /\ \A k \in PendingWithId(pub', pub'.last.id) :
                 getQueue(pub', "pending")[k].content = content]_vars

\* C12: after any sequence of publish calls on one publisher, no two queue
\* items share an id.
C12_QueueIdsUnique ==
  \A i, j \in DOMAIN pub.heap : pub.heap[i].id = pub.heap[j].id => i = j

\* an auto-publish is attempted: valid content, auto-publish on, credentials set
AutoPublishes(content) ==
  /\ validateContent(content)
  /\ pub.config.autoPublish
  /\ pub.config.accessToken
  /\ pub.config.personUrn

\* C13: when the LinkedIn API rejects an auto-publish with 401 or with 403,
\* publish returns status error, with one error for 401 and another for 403,
\* and in both cases the content is queued as a pending item.
C13_AuthAndPermissionFailuresQueue ==
  [][\A content \in Contents, rnd \in Randoms :
       /\ \A api \in {"status_401", "status_403"} :
            publish(content, api, rnd) /\ AutoPublishes(content)
              => /\ pub'.last.status = "error"
                 /\ ~pub'.last.threw
                 /\ pub'.last.error = apiError(api)
                 /\ Len(pub'.queue) = Len(pub.queue) + 1
                 /\ Item(pub', Len(pub'.queue)).content = content
                 /\ Item(pub', Len(pub'.queue)).status = "pending"
       /\ publish(content, "status_401", rnd) /\ AutoPublishes(content)
            => \A other \in ApiResponses \ {"status_401"} :
                 pub'.last.error # apiError(other)
       /\ publish(content, "status_403", rnd) /\ AutoPublishes(content)
            => \A other \in ApiResponses \ {"status_403"} :
                 pub'.last.error # apiError(other)]_vars

\* C13 witness: the API rejected two auto-publishes, the second with a 403,
\* and both contents are pending in the queue.
C13_Witness ==
  /\ Len(pub.queue) = 2
  /\ Item(pub, 1).status = "pending"
  /\ Item(pub, 2).status = "pending"
  /\ pub.config.autoPublish /\ pub.config.accessToken /\ pub.config.personUrn
  /\ validateContent(Item(pub, 1).content)
  /\ pub.last.op = "publish"
  /\ pub.last.status = "error"
  /\ pub.last.error = "LinkedIn API permissions insufficient"
  /\ posts = <<>>

\* C14: a post a workflow run queued for review is retrievable afterwards as
\* the README shows: getQueue() of a WorkflowEngine constructed after the run
\* returns the pending item, and publishFromQueue with its id finds it.
C14_QueueSurvivesNewEngine ==
  [][newWorkflowEngine
       => \A k \in DOMAIN getQueue(pub, "pending") :
            /\ PendingWithId(pub', getQueue(pub, "pending")[k].id) # {}
            /\ findIndex(pub', getQueue(pub, "pending")[k].id) # 0]_vars

----------------------------------------------------------------------------
(* Claims about the classifier and the normalizer.                         *)

\* C15: for every signal of every kind whose prior confidence lies in [0, 1],
\* classify returns a confidence in [0.3, 1.0].
C15_ClassifiedConfidenceClamped ==
  call.op = "classify"
    => /\ call.result.confidence >= MinClassified
       /\ call.result.confidence <= MaxClassified

\* C16: normalize never raises for an enriched record, whatever is missing or
\* malformed in it; the record it returns has all eight fields; when normalization failed
\* internally the record is the placeholder with topic 'Normalization Failed'
\* and confidence 0.3.
C16_NormalizeAlwaysReturnsARecord ==
  call.op = "normalize" /\ ~call.arg.isNull
    => /\ ~call.threw
       /\ \A field \in RequiredFields : field \in DOMAIN call.result
       /\ normalizationFails(call.arg)
            => /\ call.result.topic.label = "Normalization Failed"
               /\ call.result.confidence = FailedConfidence
               /\ validate(call.result)

\* C17: for every enriched record handed to normalize, the
\* normalized confidence lies in [0, 1], so that validate does not reject it.
C17_NormalizedConfidenceInRange ==
  call.op = "normalize" /\ ~call.threw
    => /\ call.result.confidence >= 0
       /\ call.result.confidence <= 100
       /\ validConfidence(call.result)

----------------------------------------------------------------------------
(* Claims about the audit trail and the state file.                        *)

\* C18: the audit trail holds at most 100 entries, the most recent ones in
\* insertion order: recordExecution puts the new entry last, and when the
\* trail is full the oldest entry is the one evicted.
C18_AuditTrailKeepsMostRecent ==
  [][\A workflow \in Workflows, status \in Statuses :
       recordExecution(workflow, status)
         => LET old == state.executions
                new == state'.executions
            IN /\ Len(new) <= MaxExecutions
               /\ new[Len(new)] =
                    [workflow |-> workflow, status |-> status, timestamp |-> now]
               /\ SubSeq(new, 1, Len(new) - 1) =
                    IF Len(old) < MaxExecutions THEN old ELSE Tail(old)]_vars

\* C18 witness: the trail is full, the entry that was its oldest is gone and
\* the second oldest is first, and the entry recorded last is last.
C18_Witness ==
  /\ Len(state.executions) = MaxExecutions
  /\ state.executions[1].timestamp = 2
  /\ state.executions[MaxExecutions].timestamp = now
  /\ call.op = "recordExecution"

\* C19: when writing the state file fails during markProcessed,
\* recordExecution or set, the call does not throw and the in-memory state
\* holds the mutation.
C19_WriteFailureIsSwallowed ==
  call.op \in {"markProcessed", "recordExecution", "set"} /\ ~call.result.writeOk
    => /\ ~call.threw
       /\ call.op = "markProcessed" => hasProcessed(call.arg)
       /\ call.op = "recordExecution" => Len(state.executions) > 0
       /\ call.op = "set" => call.arg \in DOMAIN state.metadata

\* C20: constructing the store when the state file is missing or corrupt
\* yields the empty ledger without throwing.
C20_MissingOrCorruptFileLoadsEmpty ==
  call.op = "StateStore" /\ call.arg.kind \in {"missing", "corrupt"}
    => /\ ~call.threw
       /\ state = EmptyState

----------------------------------------------------------------------------
(* Claims about the scheduler.                                             *)

\* C21: a scheduled run whose task function throws or rejects is caught by the
\* scheduler and recorded in the audit trail with status error; it does not
\* terminate the process, and the next scheduled run can start.
C21_FailedRunIsRecordedAndSurvived ==
  call.op = "task" /\ call.arg # "returns"
    => /\ ~call.threw
       /\ state.executions # <<>>
       /\ state.executions[Len(state.executions)].workflow = TaskName
       /\ state.executions[Len(state.executions)].status = "error"
       /\ call.result.process = "running"
       /\ Running

----------------------------------------------------------------------------
(* Claims about failures of the engine and of detection.                   *)

\* C22: when executeWorkflow fails at the top level (detection throws), it
\* appends an entry with status error to the audit trail and then re-raises
\* the same error to its caller.
C22_TopLevelFailureRecordedAndReraised ==
  [][runs' = runs + 1 /\ run'.pc = "idle" /\ lastRun'.outcome = "threw"
       => /\ call'.op = "executeWorkflow" /\ call'.threw
          /\ Len(state'.executions) > 0
          /\ state'.executions[Len(state'.executions)] =
               [workflow |-> "workflow-engine", status |-> "error", timestamp |-> now]
          /\ call'.result.raised = "detection error"]_vars

\* the signals of the events that the fetches which succeeded returned and
\* that the ledger does not hold
Unprocessed(commits, readme, issues) ==
  {CommitSignal(commits.data[k]) : k \in {n \in DOMAIN commits.data :
      ~hasProcessed(SignalId("commit", commits.data[n].sha))}}
  \cup {ReadmeSignal(readme.data[k]) : k \in {n \in DOMAIN readme.data :
      ~hasProcessed(SignalId("readme", readme.data[n].sha))}}
  \cup {IssueSignal(issues.data[k]) : k \in {n \in DOMAIN issues.data :
      /\ ~issues.data[n].pull_request
      /\ ~hasProcessed(SignalId("issue", issues.data[n].number))}}

\* exactly one of the three fetches failed
OneFetchFailed(commits, readme, issues) ==
  Cardinality({kind \in {"commits", "readme", "issues"} :
     ~[commits |-> commits.ok, readme |-> readme.ok, issues |-> issues.ok][kind]}) = 1

\* the sequence holds the elements of the set, each once
Enumerates(seq, S) ==
  {seq[k] : k \in DOMAIN seq} = S /\ Len(seq) = Cardinality(S)

----------------------------------------------------------------------------
(* Claims about sanitizeText.                                              *)

\* C24: sanitizeText is idempotent: for every text x and each cap m of the
\* normalizer, sanitizeText(sanitizeText(x, m), m) = sanitizeText(x, m).
C24_SanitizeIdempotent ==
  call.op = "sanitizeText again" => call.result.twice = call.result.once

\* C24 witness: a text with whitespace to collapse, longer than the cap, was
\* truncated by the first application and left alone by the second.
C24_Witness ==
  /\ call.op = "sanitizeText again"
  /\ \E k \in DOMAIN call.arg.text.chars : call.arg.text.chars[k] = Run("\t", 3)
  /\ call.result.once # call.arg.text
  /\ LengthOf(call.result.once.chars) = call.arg.maxLength
  /\ call.result.twice = call.result.once

\* the string ends with the marker '...'
EndsWithMarker(chars) ==
  chars # <<>> /\ chars[Len(chars)][1] = "." /\ chars[Len(chars)][2] >= 3

\* the string has no whitespace but single spaces between other characters
IsClean(chars) ==
  /\ \A k \in DOMAIN chars : chars[k][1] \in Whitespace => chars[k] = Run(" ", 1)
  /\ chars # <<>> => chars[1][1] \notin Whitespace /\ chars[Len(chars)][1] \notin Whitespace

\* the characters of the string that are not whitespace, in order
Visible(chars) ==
  LET visible(r) == r[1] \notin Whitespace IN Merged(SelectSeq(chars, visible))

\* C25: for an input longer than the cap the output has exactly the cap's
\* length and ends with '...'; for an input of at most the cap's length the
\* output is the input with whitespace runs collapsed and the ends trimmed;
\* the output is never longer than the cap.
C25_TruncationByInputLength ==
  call.op = "sanitizeText" /\ call.arg.text.kind = "string"
    => LET input == call.arg.text.chars
           output == call.result.once.chars
           cap == call.arg.maxLength
       IN /\ LengthOf(output) <= cap
          /\ LengthOf(input) > cap
               => LengthOf(output) = cap /\ EndsWithMarker(output)
          /\ LengthOf(input) <= cap
               => IsClean(output) /\ Visible(output) = Visible(input)

\* C25 amended: the cap is compared with the length of the cleaned input (its
\* whitespace runs collapsed to single spaces, its ends trimmed).  If that is
\* longer than the cap, the output is the first cap - 3 characters of the
\* cleaned input followed by '...', of the cap's length; otherwise the output
\* is the cleaned input.  The output is never longer than the cap.
C25_TruncationByCleanedLength ==
  call.op = "sanitizeText" /\ call.arg.text.kind = "string"
    => LET input == call.arg.text.chars
           cleaned == trim(collapse(input))
           output == call.result.once.chars
           cap == call.arg.maxLength
       IN /\ LengthOf(output) <= cap
          /\ IsClean(cleaned) /\ Visible(cleaned) = Visible(input)
          /\ LengthOf(cleaned) > cap
               => /\ LengthOf(output) = cap
                  /\ EndsWithMarker(output)
                  /\ substring(output, cap - 3) = substring(cleaned, cap - 3)
          /\ LengthOf(cleaned) <= cap => output = cleaned

\* C25 witness: 600 characters without whitespace and a cap of 500 gave
\* 497 of them and the marker.
C25_Witness ==
  /\ call.op = "sanitizeText"
  /\ call.arg.text.chars = <<Run("a", 600)>>
  /\ call.arg.maxLength = MaxContextLength
  /\ call.result.once.chars = <<Run("a", MaxContextLength - 3), Run(".", 3)>>

----------------------------------------------------------------------------
(* Claims about the text generate() returns.                               *)

\* C26: for every result of generate, a text that is not null has at most 3000
\* characters and holds none of the instruction tags [INST], [/INST], <s>,
\* </s>, and no placeholder markup unless the provider is fallback.
C26_TextWithinLimitAndWithoutMarkup ==
  gen.calls > 0 /\ gen.result.text # "null"
    => /\ gen.result.length <= MaxPostLength
       /\ \A tag \in InstructionTags : ~includes(gen.result.chars, tag)
       /\ includes(gen.result.chars, PlaceholderMarkup)
            => gen.result.provider = "fallback"

\* C27: a result whose text is the template has provider fallback and carries
\* the placeholder warning; a result with the primary provider never holds the
\* template.
C27_FallbackIsMarked ==
  gen.calls > 0
    => /\ gen.result.text = "template"
            => gen.result.provider = "fallback" /\ gen.result.warning
       /\ gen.result.provider = "huggingface" => gen.result.text # "template"
       /\ gen.result.provider = "fallback" => gen.result.text = "template"

\* C27 witness: there is a credential, the capability failed, and generate
\* returned the template with provider fallback and the warning.
C27_Witness ==
  /\ gen.calls > 0
  /\ gen.hfToken
  /\ gen.capability \in CapabilityFailures
  /\ gen.result.text = "template"
  /\ gen.result.provider = "fallback"
  /\ gen.result.warning

\* detectSignals, given the issue list that holds this upstream issue, returns it
Detects(s, event) ==
  LET signals == detectSignals(s, Fetched(<<>>), Failed, Fetched(<<event.issue>>)).signals
  IN \E k \in DOMAIN signals : signals[k].data = event.issue

\* C28: signal ids are unique per upstream event: two distinct events, such as
\* the issues with one number in two repositories, never get the same id, so
\* marking one of them processed never makes detection exclude the other.
C28_SignalIdsUniquePerEvent ==
  [][\A marked, other \in UpstreamIssues :
       (/\ marked # other
        /\ Detects(state, marked)
        /\ Detects(state, other)
        /\ call'.op = "markProcessed"
        /\ call'.arg = IssueSignal(marked.issue).id)
         => /\ IssueSignal(marked.issue).id # IssueSignal(other.issue).id
            /\ Detects(state', other)]_vars

\* C29: every Generation Request that PromptBuilder.buildPrompt builds from a
\* valid normalized record is accepted by ContentGenerator.generate: it passes
\* the generator's prompt validation, and generate returns a non-null text
\* with the primary or the fallback provider, never provider error.
C29_BuiltPromptIsAccepted ==
  \A normalizedData \in NormalizedRecords :
    (/\ validate(normalizedData)
     /\ gen.calls > 0
     /\ gen.prompt = buildPrompt(normalizedData))
      => /\ validatePrompt(gen.prompt)
         /\ gen.result.text # "null"
         /\ gen.result.provider \in {"huggingface", "fallback"}

\* the publish requests sent for a queue item that are in flight or succeeded
Invocations(ref) ==
  pub.inFlight[ref] + (IF pub.heap[ref].status = "published" THEN 1 ELSE 0)

\* C30: for any interleaving of publishFromQueue calls on one pending queue
\* id, two calls that overlap while the request is in flight included, the
\* publish capability is invoked at most once for that item.
C30_AtMostOnePublishPerItem ==
  \A ref \in DOMAIN pub.heap : Invocations(ref) <= 1

\* C31: on every path that reaches the publish capability, publish() with
\* auto-publish on and publishFromQueue for an item an earlier publish() call
\* queued, the content delivered has passed content validation: its text is a
\* non-empty string of at most 3000 characters.
C31_DeliveredContentIsValid ==
  /\ \A n \in DOMAIN posts : validateContent(posts[n].content)
  /\ \A ref \in DOMAIN pub.heap :
       pub.inFlight[ref] > 0 => validateContent(pub.heap[ref].content)

\* C32: pipeline runs are serialized: at most one run of the scheduled
\* workflow is in progress at any time; the scheduler starts no run of the
\* task while the previous run of that task has not finished.
C32_RunsAreSerialized == tasks <= 1

----------------------------------------------------------------------------
(* Claims about enrichment.                                                *)

\* the keywords up to the first whose lookup returns context
RECURSIVE UpToFirstContext(_, _)
UpToFirstContext(keywords, answers) ==
  IF keywords = <<>> THEN <<>>
  ELSE IF answers[Head(keywords)] = "extract" THEN <<Head(keywords)>>
  ELSE <<Head(keywords)>> \o UpToFirstContext(Tail(keywords), answers)

\* C34: enrichSignal makes at most 3 context lookups per signal, one per
\* extracted keyword in extraction order, none after the first lookup that
\* returns context, and none when keyword extraction yields nothing.
C34_LookupsFollowKeywords ==
  call.op = "enrichSignal" /\ ~extractionThrows(call.arg.signal)
    => /\ Len(call.result.requested) <= 3
       /\ call.result.requested =
            UpToFirstContext(extractKeywords(call.arg.signal), call.arg.answers)

\* every lookup the signal's keywords call for fails: no page answers
AllLookupsFail ==
  /\ extractKeywords(call.arg.signal) # <<>>
  /\ \A k \in DOMAIN extractKeywords(call.arg.signal) :
       call.arg.answers[extractKeywords(call.arg.signal)[k]] = "timeout"

\* C35: on outright lookup failure (every lookup for the signal fails with a
\* transport error or a timeout) enrichSignal returns the confidence
\* max(0.3, c - 0.2) for the input confidence c, and on no path does it return
\* a confidence higher than c.
C35_ConfidenceReducedNeverRaised ==
  call.op = "enrichSignal"
    => /\ ~call.threw
       /\ call.result.enriched.confidence.thousandths <= call.arg.signal.confidence
       /\ ~extractionThrows(call.arg.signal) /\ AllLookupsFail
            => call.result.enriched.confidence.thousandths =
                 Max(300, call.arg.signal.confidence - 200)

\* C36: the back-reference to the originating signal survives every
\* enrichment path: whether enrichment found context, found none, extracted
\* no keywords or failed, the record that normalize produces from
\* enrichSignal's result has signalId equal to the signal's id.
C36_SignalIdSurvivesEnrichment ==
  call.op = "enrichSignal"
    => /\ ~call.threw
       /\ ~normalize(call.result.enriched, now).threw
       /\ normalize(call.result.enriched, now).record.signalId = call.arg.signal.id

----------------------------------------------------------------------------
(* Claims about persistence and the metadata accessors.                    *)

C40_MetadataRoundTrip ==
  /\ call.op = "set"
       => \A d \in {"null", "d"} : get(call.arg, d) = state.metadata[call.arg]
  /\ \A key \in MetaKeys, d \in {"null", "d"} :
       key \notin DOMAIN state.metadata => get(key, d) = d

----------------------------------------------------------------------------
(* Claims about the audit trail of the engine.                             *)

\* C38: every executeWorkflow invocation that returns normally appends
\* exactly one 'workflow-engine' entry to the execution audit trail, a run in
\* which detection finds no new signals included.
C38_ReturnedRunIsRecordedOnce ==
  [][(\/ runs' = runs + 1 /\ run'.pc = "idle" /\ lastRun'.outcome = "no_signals"
      \/ run.pc = "processing" /\ run'.pc = "idle")
       => /\ Len(state'.executions) = Len(state.executions) + 1
          /\ state'.executions[Len(state'.executions)].workflow = "workflow-engine"]_vars

----------------------------------------------------------------------------
(* Claims about the image generator.                                       *)

\* the provider's search was made and returned a photo with a url
ReturnedImage(provider) ==
  /\ \E k \in DOMAIN call.result.requested : call.result.requested[k] = provider
  /\ call.arg[provider] = "image"

\* C39: ImagePromptGenerator.generate never throws and always returns a
\* result of type stock_image, ai_prompt or none; the providers are tried in
\* the order Unsplash, Pexels and the first success wins; Pexels is queried
\* only when Unsplash is unconfigured or returned nothing; the AI prompt is
\* returned only when no provider returned an image.
C39_ImageProvidersInOrder ==
  call.op = "generate"
    => /\ ~call.threw
       /\ call.result.type \in {"stock_image", "ai_prompt", "none"}
       /\ call.result.requested \in
            {<<>>, <<"unsplash">>, <<"pexels">>, <<"unsplash", "pexels">>}
       /\ (\E k \in DOMAIN call.result.requested : call.result.requested[k] = "pexels")
            => \/ ~call.arg.providers.unsplash
               \/ call.arg.unsplash \notin {"image", "image_without_url"}
       /\ call.result.type = "stock_image"
            => /\ ReturnedImage(call.result.provider)
               /\ call.result.provider = "pexels" => ~ReturnedImage("unsplash")
       /\ call.result.type = "ai_prompt"
            => ~ReturnedImage("unsplash") /\ ~ReturnedImage("pexels")

\* C39 witness: with both providers configured Unsplash found nothing, Pexels
\* was asked next and its photo was returned.
C39_Witness ==
  /\ call.op = "generate"
  /\ call.arg.providers.unsplash /\ call.arg.providers.pexels
  /\ call.arg.unsplash = "no_results"
  /\ call.arg.pexels = "image"
  /\ call.result.requested = <<"unsplash", "pexels">>
  /\ call.result.type = "stock_image"
  /\ call.result.provider = "pexels"

====
